---- MODULE Spec2Model ----
(***************************************************************************)
(* Job orchestration substrate of the GRACE web tool (api_v2):             *)
(*   runtime/scheduler.py   GPUScheduler: job queue, GPU slot locks        *)
(*   runtime/runner.py      ModelRunner: per-step progress events          *)
(*   runtime/sse.py         push_event / sse_stream: signed event stream   *)
(*   runtime/roast_config.py validate_recipe                               *)
(*   services/redis_client.py  the shared-state hashes and lists           *)
(* Redis lists are sequences, Redis hashes are functions whose domain is   *)
(* the set of fields present, threads are program counters.                *)
(***************************************************************************)
EXTENDS Integers, Sequences, FiniteSets, TLC

(***************************************************************************)
(* Bounds of the model.                                                    *)
(***************************************************************************)
NumGpus == 2
MaxJobs == 2
MaxSteps == 2
NumLoops == 2
MaxRuns == 2
MaxEvents == 3
MaxHeartbeats == 1
MaxForged == 1
MaxPairs == 2
MaxCurrent == 2
MaxClock == 4
MaxFiles == 2
MaxLines == 2
MaxTicks == 12      \* heartbeat ticks of one FEM solve that are followed
MaxEnqueued == 3    \* simulation jobs enqueued in one behaviour
NumReaders == 2     \* stream requests for one session
MaxMkdirs == 2      \* creations of one session directory that are followed
MaxChunks == 2      \* writes that make up one output file

(***************************************************************************)
(* Names.                                                                  *)
(***************************************************************************)
SessionIds == <<"s1", "s2", "s3", "s4">>
ModelNames == <<"grace-native", "grace-fs", "domino-native", "domino-fs">>

Jobs == {SessionIds[i] : i \in 1..MaxJobs}
Models == {ModelNames[i] : i \in 1..MaxSteps}
Loops == 1..NumLoops

JobIndex(j) == CHOOSE i \in 1..Len(SessionIds) : SessionIds[i] = j

\* registry.py: the "space" of a registry entry
ModelSpace(m) == IF m \in {"grace-fs", "domino-fs"} THEN "freesurfer" ELSE "native"

\* The plans a payload can carry: the first k models of the registry.
Plans == {SubSeq(ModelNames, 1, k) : k \in 1..MaxSteps}

SeqRange(s) == {s[i] : i \in 1..Len(s)}

Min(a, b) == IF a < b THEN a ELSE b

VARIABLES
    \* ---- shared state (Redis) ----
    job_queue,      \* list job_queue
    job_data,       \* keys job_data:<sid> (a function on the sids present)
    gpu_locks,      \* hash gpu_locks: gpu id -> "free" | "<sid>:<model>"
    job_status,     \* hashes job_status:<sid>, field model
    progress,       \* hash progress, field "<sid>:<model>"
    sse,            \* lists sse:<sid> of envelopes
    \* ---- GPUScheduler process state ----
    gpu_lock,       \* holder of threading.Lock _gpu_lock, or "nobody"
    reqpc,          \* position of the enqueue() call of each job
    jobpc,          \* position of the run_job thread of each job
    pc,             \* position of each _run_single_model task
    gpu_id,         \* local gpu_id of each task (-1: None)
    stage,          \* number of _emit calls the task's ModelRunner.run made
    result,         \* outcome of each task's future
    errors,         \* run_job's local list errors, per job
    \* ---- history (not read by the program) ----
    published,      \* per session: every event given to push_event, in order
    progress_log,   \* per step: every value given to set_progress, in order
    runs,           \* per job: number of run_job threads started
    dequeuedBy,     \* per job: the scheduler loops that popped it
    releases,       \* per step: number of release_gpu calls
    \* ---- one client of GET /stream... on session StreamSid ----
    stream_pc,      \* "closed", "open", "closing", "ended" or "crashed"
    stream_kind,    \* the endpoint: "job", "roast" or "simnibs"
    emitted,        \* the envelopes the generator has yielded, in order
    expired,        \* history: indices of published events lost to EXPIRE
    forged,         \* history: number of envelopes written by another client
    \* ---- one call of validate_recipe ----
    recipe,         \* its argument
    verdict,        \* "none", "accepted" or "ValueError"
    \* ---- the session directories and the hourly sweep ----
    now,            \* the clock, in units of twelve hours
    dir_mtime,      \* st_mtime of each session directory that exists
    serving,        \* sessions with a queued or running job
    reaped,         \* history: what each rmtree of the sweep removed
    \* ---- the session path functions ----
    fs_dirs,        \* directories that exist (paths below the base directory)
    fs_files,       \* regular files that exist
    last_call,      \* the latest call of a path function and what it did
    prev_call,      \* the call before it
    mkdirs,         \* history: the operations that made the session directory
    \* ---- the /predict handler before it enqueues ----
    orch_pc,        \* per session: "idle", "started" or "planned" (start_job)
    orch_plan,      \* per session: the models of the request
    pos,            \* per session: <<the value get_queue_position returned>>
    responses,      \* history: per session, the response and the queue then
    \* ---- ModelRunner.infer of each step ----
    inf_pc,         \* per step: "none", "loop", "ok" or "raise"
    attempts,       \* per step: the calls of sliding_window_inference so far
    \* ---- one ROAST run (ROASTRunner.run) and its child process ----
    sim_pc,         \* "idle", "reading", "wait", "raised:<why>", "complete", "error"
    child,          \* "none", "running", "exit0", "exit1" or "killed"
    pipe,           \* lines the child wrote that the runner has not read
    late,           \* time.time() > deadline
    overran,        \* history: the child was running when the deadline passed
    last_progress,  \* local variable of run()
    roast_status,   \* key roast_job_status:<sid>
    sim_events,     \* history: events published by _emit
    outputs,        \* the output files present in the working directory
    rjob,           \* ROASTScheduler: "queued", "popped", "constructed", "returned"
    \* ---- one POST /simulate request ----
    sim_req,        \* the request: ids given, segmentation present, recipe
    sim_resp,       \* its response: "none", "200", "400", "404" or "500"
    roast_job_queue,    \* list roast_job_queue
    roast_job_data,     \* keys roast_job_data:<sid>
    roast_job_status,   \* keys roast_job_status:<sid>
    roast_sse,      \* events the handler published for the session
    push_failed,    \* history: the callers (session, model or "job") whose push_event raised
    store_up,       \* the shared store answers commands
    loop_alive,     \* the scheduler_loop thread is still running
    out_dir,        \* per model, the files of <sid>/<model>/: name -> content
    save_pc,        \* per model, the position of save_output
    seen,           \* history: what readers of the canonical path observed
    simnibs_job_queue,  \* Redis list simnibs_job_queue
    simnibs_job_data,   \* the sessions with a simnibs_job_data:<sid> key
    simnibs_job_status, \* Redis keys simnibs_job_status:<sid>
    simnibs_sse,        \* the events the handler pushed for the SimNIBS job
    acq,            \* the latest acquire_gpu call: <<>> or <<[tag, mem, before, ret, after]>>
    plan_pc,        \* position of the /predict request in the orchestrator
    plan_req,       \* the models and the space the request asked for
    steps,          \* the plan build_model_plan has built so far
    fem_pc,         \* position of SimNIBSRunner.run_fem in its heartbeat loop
    solve,          \* the background solve thread
    fem_late,       \* TRUE once time.time() is past the deadline of run_fem
    fem_progress,   \* the local variable progress of run_fem
    fem_events,     \* events of the SimNIBS job, each with what held at its publication
    rq,             \* roast_job_queue: session ids, each with the payload it was pushed with
    rdata,          \* roast_job_data:<sid>: the stored payload, <<>> when absent
    submitted,      \* run_job calls the executor has not started yet
    workers,        \* per executor thread: the run_job call it is in
    sweep,          \* the last cleanup_old_sessions call: removed, returned, logged
    rd_pc,          \* per stream reader of the session: closed, open, closing, ended, crashed
    rd_emitted,     \* per stream reader: the envelopes its generator has yielded
    wait_pc         \* per step thread: its place in _run_single_model, over successive jobs

redisVars == <<job_queue, job_data, gpu_locks, job_status, progress, sse>>
threadVars == <<gpu_lock, reqpc, jobpc, pc, gpu_id, stage, result, errors>>
histVars == <<published, progress_log, runs, dequeuedBy, releases>>
streamVars == <<stream_pc, stream_kind, emitted, expired, forged>>
recipeVars == <<recipe, verdict>>
reapVars == <<now, dir_mtime, serving, reaped>>
pathVars == <<fs_dirs, fs_files, last_call, prev_call, mkdirs>>
predVars == <<orch_pc, orch_plan, pos, responses>>
inferVars == <<inf_pc, attempts>>
simMore == <<outputs, rjob>>
simVars == <<sim_pc, child, pipe, late, overran, last_progress, roast_status, sim_events, simMore>>
reqVars == <<sim_req, sim_resp, roast_job_queue, roast_job_data, roast_job_status, roast_sse>>
busVars == <<push_failed>>
pollVars == <<store_up, loop_alive>>
outVars == <<out_dir, save_pc, seen>>
nibsVars == <<simnibs_job_queue, simnibs_job_data, simnibs_job_status, simnibs_sse>>
acqVars == <<acq>>
planVars == <<plan_pc, plan_req, steps>>
femVars == <<fem_pc, solve, fem_late, fem_progress, fem_events>>
poolVars == <<rq, rdata, submitted, workers>>
sweepVars == <<sweep>>
readersVars == <<rd_pc, rd_emitted>>
waitVars == <<wait_pc>>
extVars == <<reapVars, pathVars, predVars, inferVars, simVars, reqVars, busVars, pollVars, outVars, nibsVars, acqVars, planVars, femVars, poolVars, sweepVars, readersVars, waitVars>>
coreVars == <<redisVars, threadVars, histVars, streamVars, recipeVars>>
notReap == <<coreVars, pathVars, predVars, inferVars, simVars, reqVars, busVars, pollVars, outVars, nibsVars, acqVars, planVars, femVars, poolVars, sweepVars, readersVars, waitVars>>
notPath == <<coreVars, reapVars, predVars, inferVars, simVars, reqVars, busVars, pollVars, outVars, nibsVars, acqVars, planVars, femVars, poolVars, sweepVars, readersVars, waitVars>>
notPred == <<coreVars, reapVars, pathVars, inferVars, simVars, reqVars, busVars, pollVars, outVars, nibsVars, acqVars, planVars, femVars, poolVars, sweepVars, readersVars, waitVars>>
notInfer == <<coreVars, reapVars, pathVars, predVars, simVars, reqVars, busVars, pollVars, outVars, nibsVars, acqVars, planVars, femVars, poolVars, sweepVars, readersVars, waitVars>>
notSim == <<coreVars, reapVars, pathVars, predVars, inferVars, reqVars, busVars, pollVars, outVars, nibsVars, acqVars, planVars, femVars, poolVars, sweepVars, readersVars, waitVars>>
notReq == <<coreVars, reapVars, pathVars, predVars, inferVars, simVars, busVars, pollVars, outVars, nibsVars, acqVars, planVars, femVars, poolVars, sweepVars, readersVars, waitVars>>
notBus == <<coreVars, reapVars, pathVars, predVars, inferVars, simVars, reqVars, pollVars, outVars, nibsVars, acqVars, planVars, femVars, poolVars, sweepVars, readersVars, waitVars>>
notPoll == <<coreVars, reapVars, pathVars, predVars, inferVars, simVars, reqVars, busVars, outVars, nibsVars, acqVars, planVars, femVars, poolVars, sweepVars, readersVars, waitVars>>
notOut == <<coreVars, reapVars, pathVars, predVars, inferVars, simVars, reqVars, busVars, pollVars, nibsVars, acqVars, planVars, femVars, poolVars, sweepVars, readersVars, waitVars>>
notNibs == <<coreVars, reapVars, pathVars, predVars, inferVars, simVars, reqVars, busVars, pollVars, outVars, acqVars, planVars, femVars, poolVars, sweepVars, readersVars, waitVars>>
notAcq == <<coreVars, reapVars, pathVars, predVars, inferVars, simVars, reqVars, busVars, pollVars, outVars, nibsVars, planVars, femVars, poolVars, sweepVars, readersVars, waitVars>>
notPlan == <<coreVars, reapVars, pathVars, predVars, inferVars, simVars, reqVars, busVars, pollVars, outVars, nibsVars, acqVars, femVars, poolVars, sweepVars, readersVars, waitVars>>
notFem == <<coreVars, reapVars, pathVars, predVars, inferVars, simVars, reqVars, busVars, pollVars, outVars, nibsVars, acqVars, planVars, poolVars, sweepVars, readersVars, waitVars>>
notPool == <<coreVars, reapVars, pathVars, predVars, inferVars, simVars, reqVars, busVars, pollVars, outVars, nibsVars, acqVars, planVars, femVars, sweepVars, readersVars, waitVars>>
notSweep == <<coreVars, reapVars, pathVars, predVars, inferVars, simVars, reqVars, busVars, pollVars, outVars, nibsVars, acqVars, planVars, femVars, poolVars, readersVars, waitVars>>
notReaders == <<coreVars, reapVars, pathVars, predVars, inferVars, simVars, reqVars, busVars, pollVars, outVars, nibsVars, acqVars, planVars, femVars, poolVars, sweepVars, waitVars>>
notWait == <<coreVars, reapVars, pathVars, predVars, inferVars, simVars, reqVars, busVars, pollVars, outVars, nibsVars, acqVars, planVars, femVars, poolVars, sweepVars, readersVars>>
besidePred == <<reapVars, pathVars, inferVars, simVars, reqVars, busVars, pollVars, outVars, nibsVars, acqVars, planVars, femVars, poolVars, sweepVars, readersVars, waitVars>>
besideBus == <<reapVars, pathVars, predVars, inferVars, simVars, reqVars, pollVars, outVars, nibsVars, acqVars, planVars, femVars, poolVars, sweepVars, readersVars, waitVars>>
besidePlan == <<reapVars, predVars, inferVars, simVars, reqVars, busVars, pollVars, outVars, nibsVars, acqVars, femVars, poolVars, sweepVars, readersVars, waitVars>>
besideWait == <<reapVars, pathVars, predVars, inferVars, simVars, reqVars, busVars, pollVars, outVars, nibsVars, acqVars, planVars, femVars, poolVars, sweepVars, readersVars>>
besideReaders == <<reapVars, pathVars, predVars, inferVars, simVars, reqVars, busVars, pollVars, outVars, nibsVars, acqVars, planVars, femVars, poolVars, sweepVars, waitVars>>
besideSweep == <<pathVars, planVars, predVars, inferVars, simVars, reqVars, busVars, pollVars, outVars, nibsVars, acqVars, femVars, poolVars, readersVars, waitVars>>
besideAcq == <<reapVars, pathVars, predVars, inferVars, simVars, reqVars, busVars, pollVars, outVars, nibsVars, planVars, femVars, poolVars, sweepVars, readersVars, waitVars>>
besideHandlers == <<reapVars, pathVars, predVars, inferVars, simVars, busVars, pollVars, outVars, acqVars, planVars, femVars, poolVars, sweepVars, readersVars, waitVars>>

vars == <<redisVars, threadVars, histVars, streamVars, recipeVars, extVars>>

\* range(self.num_gpus): the slots _init_gpu_locks wrote into the hash
Gpus == DOMAIN gpu_locks

(***************************************************************************)
(* sse.py                                                                  *)
(***************************************************************************)
HMAC_SECRET == "CHANGE_ME_HMAC"

\* sign_event: HMAC-SHA256 under the secret of the sorted-key JSON of the
\* event.  A record is its own sorted-key form; the MAC is kept symbolic.
sign_event(event) == [key |-> HMAC_SECRET, msg |-> event]

\* push_event: sign, wrap, RPUSH onto sse:<sid> (and EXPIRE 3600)
Envelope(event) == [event |-> event, sig |-> sign_event(event)]

\* Variant: LPUSH in place of RPUSH (the newest envelope is read first)
push_event_front(lists, sid, event) ==
    [lists EXCEPT ![sid] = <<Envelope(event)>> \o @]

push_event(lists, sid, event) ==
    [lists EXCEPT ![sid] = Append(@, Envelope(event))]

Record(hist, sid, event) == [hist EXCEPT ![sid] = Append(@, event)]

(***************************************************************************)
(* services/redis_client.py                                                *)
(***************************************************************************)
\* HSET on a hash held as a function on the fields present
HSet(h, f, v) == [k \in (DOMAIN h) \cup {f} |-> IF k = f THEN v ELSE h[k]]

StatusKey(j, m) == <<j, m>>

set_job_status(h, j, m, status) == HSet(h, StatusKey(j, m), status)

ProgressKey(j, m) == j \o ":" \o m

set_progress(h, j, m, p) == HSet(h, ProgressKey(j, m), p)

\* LPOP: the value delivered and the list left behind
LPopValue(q) == Head(q)

\* Variant: a read of the head that removes nothing (LINDEX 0)
LPopKeep(q) == q

LPopRest(q) == Tail(q)

RPush(q, v) == Append(q, v)

(***************************************************************************)
(* GPUScheduler                                                            *)
(***************************************************************************)
OwnerTag(j, m) == j \o ":" \o m

\* _init_gpu_locks, for num_gpus = n
InitGpuLocks(n) == [g \in 0..(n - 1) |-> "free"]

NoGpu == -1

\* with self._gpu_lock: a thread enters only when no thread holds the lock
\* Variant: acquire_gpu and release_gpu without "with self._gpu_lock"
CanEnterUnlocked(t) == TRUE

CanEnterLock(t) == gpu_lock = "nobody"

\* _gpu_free_memory_mib(gpu) >= min_free_mib, for the probe outcome mem
\* acquire_gpu scans range(num_gpus) and takes the first slot that is "free"
\* in the hash and has enough live memory
Qualifies(locks, mem, g) == locks[g] = "free" /\ mem[g]

FirstQualifying(locks, mem) ==
    IF \E g \in Gpus : Qualifies(locks, mem, g)
    THEN CHOOSE g \in Gpus : /\ Qualifies(locks, mem, g)
                            /\ \A h \in Gpus : Qualifies(locks, mem, h) => g <= h
    ELSE NoGpu

PlanOf(j) == job_data[j]

StepsOf(j) == IF j \in DOMAIN job_data THEN SeqRange(PlanOf(j)) ELSE {}

\* A task is in the slot-owning part of _run_single_model: acquire_gpu has
\* returned its slot and release_gpu has not yet been called for it.
Holding(j, m) == pc[j][m] \in {"acquired", "running", "raised", "finally"}

\* Tasks of job j occupying a worker of its ThreadPoolExecutor
Active(j) == {m \in Models : pc[j][m] \notin {"idle", "submitted", "done"}}

PoolSize(j) == Min(Len(PlanOf(j)), Cardinality(Gpus))

PositionIn(plan, m) == CHOOSE i \in 1..Len(plan) : plan[i] = m

\* Variant: run_job goes on after the first completed future
AnyTaskSettled(j) == \E m \in StepsOf(j) : pc[j][m] = "done"

\* run_job leaves "with ThreadPoolExecutor(...)" (lines 138-157) only when
\* every submitted task has ended
AllTasksSettled(j) == \A m \in StepsOf(j) : pc[j][m] = "done"

(***************************************************************************)
(* ModelRunner (runner.py): the _emit calls of run(), in order              *)
(***************************************************************************)
\* Variant: the two model_load events in the opposite order
EmitSeqReordered(m) ==
    <<[event |-> "model_load_complete", progress |-> 10],
      [event |-> "model_load_start", progress |-> 5],
      [event |-> "model_complete", progress |-> 100]>>

EmitSeq(m) ==
    <<[event |-> "model_load_start", progress |-> 5],
      [event |-> "model_load_complete", progress |-> 10],
      [event |-> "preprocess_start", progress |-> 15],
      [event |-> "preprocess_complete", progress |-> 25],
      [event |-> "inference_start", progress |-> 30],
      [event |-> "inference_mid", progress |-> 65],
      [event |-> "save_start", progress |-> 70]>>
    \o (IF ModelSpace(m) = "freesurfer"
        THEN <<[event |-> "native_conversion_start", progress |-> 85]>>
        ELSE <<>>)
    \o <<[event |-> "model_complete", progress |-> 100]>>

\* The stages of run() after which the next statement can raise: a missing
\* checkpoint or a load error (after model_load_start), preprocess_image,
\* sliding_window_inference, the save, and the renames of the conversion.
CanRaiseAfter(m, k) ==
    \/ k \in {1, 3, 5, 7}
    \/ ModelSpace(m) = "freesurfer" /\ k = 8

\* _emit(event, progress, detail): the payload
Payload(m, event, p, gpu) ==
    [event |-> event, model |-> m, progress |-> p, gpu |-> gpu]

PayloadDetail(m, event, p, gpu) ==
    [event |-> event, model |-> m, progress |-> p, gpu |-> gpu, detail |-> "err"]

\* run()'s except branch: _emit("model_error", -1, detail=str(e))
ErrorProgress == -1

(***************************************************************************)
(* Initial state: the module-level GPUScheduler() has run _init_gpu_locks, *)
(* nothing is enqueued, no stream is open.                                 *)
(***************************************************************************)
EmptyHash == [k \in {} |-> "absent"]

StreamSid == SessionIds[1]

\* The state after GPUScheduler(num_gpus = n) was constructed and enqueue
\* has run to completion for the jobs of enq, a sequence of <<sid, plan>>.
SchedInit(n, enq) ==
    LET E == 1..Len(enq)
        sids == {enq[i][1] : i \in E}
        planOf(j) == enq[CHOOSE i \in E : enq[i][1] = j][2]
        queued(j) == IF j \in sids THEN <<[event |-> "queued"]>> ELSE <<>>
    IN
    /\ job_queue = [i \in E |-> enq[i][1]]
    /\ job_data = [j \in sids |-> planOf(j)]
    /\ gpu_locks = InitGpuLocks(n)
    /\ job_status = [k \in UNION {{StatusKey(j, m) : m \in SeqRange(planOf(j))} : j \in sids}
                        |-> "queued"]
    /\ progress = EmptyHash
    /\ sse = [j \in Jobs |-> IF j \in sids THEN <<Envelope([event |-> "queued"])>> ELSE <<>>]
    /\ gpu_lock = "nobody"
    /\ reqpc = [j \in Jobs |-> IF j \in sids THEN "done" ELSE "idle"]
    /\ jobpc = [j \in Jobs |-> "none"]
    /\ pc = [j \in Jobs |-> [m \in Models |-> "idle"]]
    /\ gpu_id = [j \in Jobs |-> [m \in Models |-> NoGpu]]
    /\ stage = [j \in Jobs |-> [m \in Models |-> 0]]
    /\ result = [j \in Jobs |-> [m \in Models |-> "none"]]
    /\ errors = [j \in Jobs |-> <<>>]
    /\ published = [j \in Jobs |-> queued(j)]
    /\ progress_log = [j \in Jobs |-> [m \in Models |-> <<>>]]
    /\ runs = [j \in Jobs |-> 0]
    /\ dequeuedBy = [j \in Jobs |-> {}]
    /\ releases = [j \in Jobs |-> [m \in Models |-> 0]]

StreamInit ==
    /\ stream_pc = "closed"
    /\ stream_kind = "job"
    /\ emitted = <<>>
    /\ expired = {}
    /\ forged = 0

RecipeInit ==
    /\ recipe = <<>>
    /\ verdict = "none"

\* No session directory yet
ReapInit ==
    /\ now = 0
    /\ dir_mtime = EmptyHash
    /\ serving = {}
    /\ reaped = {}

\* config.py line 18 has created the base directory; no call yet
SESSION_DIR == <<"sessions">>

NoCall == [fn |-> "none", sid |-> "", arg |-> "", ret |-> <<>>,
           dirs_made |-> {}, files_made |-> {}]

PathInit ==
    /\ fs_dirs = {SESSION_DIR}
    /\ fs_files = {}
    /\ last_call = NoCall
    /\ prev_call = NoCall
    /\ mkdirs = <<>>

\* No /predict request yet
PredInit ==
    /\ orch_pc = [j \in Jobs |-> "idle"]
    /\ orch_plan = [j \in Jobs |-> <<>>]
    /\ pos = [j \in Jobs |-> <<>>]
    /\ responses = [j \in Jobs |-> <<>>]

\* No step has entered infer
InferInit ==
    /\ inf_pc = [j \in Jobs |-> [m \in Models |-> "none"]]
    /\ attempts = [j \in Jobs |-> [m \in Models |-> <<>>]]

\* The ROAST job was queued (status "queued"), its runner has not started
SimInit ==
    /\ sim_pc = "idle"
    /\ child = "none"
    /\ pipe = <<>>
    /\ late = FALSE
    /\ overran = FALSE
    /\ last_progress = 0
    /\ roast_status = "queued"
    /\ sim_events = <<>>
    /\ outputs = {}
    /\ rjob = "queued"

\* No /simulate request yet, no ROAST job known to the store
ReqInit ==
    /\ sim_req = [path |-> "", ids |-> FALSE, seg |-> FALSE, recipe |-> <<>>]
    /\ sim_resp = "none"
    /\ roast_job_queue = <<>>
    /\ roast_job_data = {}
    /\ roast_job_status = EmptyHash
    /\ roast_sse = <<>>

NibsInit ==
    /\ simnibs_job_queue = <<>>
    /\ simnibs_job_data = {}
    /\ simnibs_job_status = EmptyHash
    /\ simnibs_sse = <<>>

AcqInit == acq = <<>>

\* config.py 55: ROAST_MAX_WORKERS = int(os.getenv("ROAST_MAX_WORKERS", "2"))
ROAST_MAX_WORKERS == 2

FemInit ==
    /\ fem_pc = "idle"
    /\ solve = "none"
    /\ fem_late = FALSE
    /\ fem_progress = 0
    /\ fem_events = <<>>

\* ThreadPoolExecutor(max_workers=ROAST_MAX_WORKERS): every thread idle
PoolInit ==
    /\ rq = <<>>
    /\ rdata = [sid \in Jobs |-> <<>>]
    /\ submitted = <<>>
    /\ workers = [w \in 1..ROAST_MAX_WORKERS |-> [state |-> "idle"]]

\* No sweep yet
SweepInit == sweep = [removed |-> {}, ret |-> 0, logs |-> {}]

\* No stream request yet
ReadersInit ==
    /\ rd_pc = [r \in 1..NumReaders |-> "closed"]
    /\ rd_emitted = [r \in 1..NumReaders |-> <<>>]

\* No step thread yet
WaitInit == wait_pc = [t \in Jobs \X Models |-> "idle"]

PlanInit ==
    /\ plan_pc = "idle"
    /\ plan_req = [models |-> <<>>, space |-> ""]
    /\ steps = <<>>

BusInit == push_failed = {}

PollInit == store_up = TRUE /\ loop_alive = TRUE

\* The files of a model's output directory (runner.py 180-201)
Canonical == "output.nii.gz"
OutNames == {Canonical, "output_native.nii.gz", "output_fs.nii.gz"}
NoFile == <<>>

OutInit ==
    /\ out_dir = [m \in Models |-> [n \in OutNames |-> NoFile]]
    /\ save_pc = [m \in Models |-> "start"]
    /\ seen = {}

ExtInit == ReapInit /\ PathInit /\ PredInit /\ InferInit /\ SimInit /\ ReqInit /\ BusInit /\ PollInit /\ OutInit /\ NibsInit /\ AcqInit /\ PlanInit /\ FemInit /\ PoolInit /\ SweepInit /\ ReadersInit /\ WaitInit

\* One accelerator (GPU_COUNT = 1), nothing enqueued yet
Init == SchedInit(1, <<>>) /\ StreamInit /\ RecipeInit /\ ExtInit

(***************************************************************************)
(* GPUScheduler.enqueue (scheduler.py 31-41), called once per session.     *)
(* The three parts are separate actions: the scheduler loop can pop the    *)
(* job as soon as it is pushed.                                            *)
(***************************************************************************)
\* redis_client.set(job_data:<sid>) ; redis_client.rpush(job_queue)
EnqueueStore(j, plan) ==
    /\ reqpc[j] = "idle"
    /\ \A i \in 1..(JobIndex(j) - 1) : reqpc[SessionIds[i]] # "idle"
    /\ job_data' = [k \in (DOMAIN job_data) \cup {j} |->
                       IF k = j THEN plan ELSE job_data[k]]
    /\ job_queue' = RPush(job_queue, j)
    /\ reqpc' = [reqpc EXCEPT ![j] = "stored"]
    /\ UNCHANGED <<gpu_locks, job_status, progress, sse>>
    /\ UNCHANGED <<gpu_lock, jobpc, pc, gpu_id, stage, result, errors>>
    /\ UNCHANGED <<histVars, streamVars, recipeVars, extVars>>

\* for model_name in payload["models"]: set_job_status(..., "queued")
EnqueueStatus(j) ==
    /\ reqpc[j] = "stored"
    /\ job_status' = [k \in (DOMAIN job_status) \cup {StatusKey(j, m) : m \in StepsOf(j)} |->
                         IF k \in {StatusKey(j, m) : m \in StepsOf(j)}
                         THEN "queued" ELSE job_status[k]]
    /\ reqpc' = [reqpc EXCEPT ![j] = "statused"]
    /\ UNCHANGED <<job_queue, job_data, gpu_locks, progress, sse>>
    /\ UNCHANGED <<gpu_lock, jobpc, pc, gpu_id, stage, result, errors>>
    /\ UNCHANGED <<histVars, streamVars, recipeVars, extVars>>

\* push_event(job_id, {"event": "queued"})
EnqueueEvent(j) ==
    /\ reqpc[j] = "statused"
    /\ sse' = push_event(sse, j, [event |-> "queued"])
    /\ published' = Record(published, j, [event |-> "queued"])
    /\ reqpc' = [reqpc EXCEPT ![j] = "done"]
    /\ UNCHANGED <<job_queue, job_data, gpu_locks, job_status, progress>>
    /\ UNCHANGED <<gpu_lock, jobpc, pc, gpu_id, stage, result, errors>>
    /\ UNCHANGED <<progress_log, runs, dequeuedBy, releases>>
    /\ UNCHANGED <<streamVars, recipeVars, extVars>>

(***************************************************************************)
(* GPUScheduler.scheduler_loop (scheduler.py 169-180): one iteration that  *)
(* finds a job.  LPOP is one Redis command; the loop then starts the       *)
(* run_job thread and sleeps.  An iteration on an empty queue changes      *)
(* nothing.                                                                *)
(***************************************************************************)
\* Variant: the loop runs each job itself and polls again when it has ended
LoopDequeueBlocking(l) ==
    /\ job_queue # <<>>
    /\ \A k \in Jobs : jobpc[k] \in {"none", "done"}
    /\ LET j == LPopValue(job_queue) IN
         /\ runs[j] < MaxRuns
         /\ job_queue' = LPopRest(job_queue)
         /\ runs' = [runs EXCEPT ![j] = @ + 1]
         /\ dequeuedBy' = [dequeuedBy EXCEPT ![j] = @ \cup {l}]
         /\ jobpc' = [jobpc EXCEPT ![j] = IF @ = "none" THEN "start" ELSE @]
    /\ UNCHANGED <<job_data, gpu_locks, job_status, progress, sse>>
    /\ UNCHANGED <<gpu_lock, reqpc, pc, gpu_id, stage, result, errors>>
    /\ UNCHANGED <<published, progress_log, releases>>
    /\ UNCHANGED <<streamVars, recipeVars, extVars>>

LoopDequeue(l) ==
    /\ job_queue # <<>>
    /\ LET j == LPopValue(job_queue) IN
         /\ runs[j] < MaxRuns
         /\ job_queue' = LPopRest(job_queue)
         /\ runs' = [runs EXCEPT ![j] = @ + 1]
         /\ dequeuedBy' = [dequeuedBy EXCEPT ![j] = @ \cup {l}]
         /\ jobpc' = [jobpc EXCEPT ![j] = IF @ = "none" THEN "start" ELSE @]
    /\ UNCHANGED <<job_data, gpu_locks, job_status, progress, sse>>
    /\ UNCHANGED <<gpu_lock, reqpc, pc, gpu_id, stage, result, errors>>
    /\ UNCHANGED <<published, progress_log, releases>>
    /\ UNCHANGED <<streamVars, recipeVars, extVars>>

(***************************************************************************)
(* GPUScheduler.run_job (scheduler.py 115-167)                             *)
(***************************************************************************)
\* Lines 119-147: read the payload, publish job_start, submit one task per
\* step to the ThreadPoolExecutor.  A missing payload ends the thread.
JobStart(j) ==
    /\ jobpc[j] = "start"
    /\ IF j \in DOMAIN job_data
       THEN /\ sse' = push_event(sse, j, [event |-> "job_start"])
            /\ published' = Record(published, j, [event |-> "job_start"])
            /\ pc' = [pc EXCEPT ![j] = [m \in Models |->
                          IF m \in StepsOf(j) THEN "submitted" ELSE pc[j][m]]]
            /\ jobpc' = [jobpc EXCEPT ![j] = "pool"]
       ELSE /\ jobpc' = [jobpc EXCEPT ![j] = "done"]
            /\ UNCHANGED <<sse, published, pc>>
    /\ UNCHANGED <<job_queue, job_data, gpu_locks, job_status, progress>>
    /\ UNCHANGED <<gpu_lock, reqpc, gpu_id, stage, result, errors>>
    /\ UNCHANGED <<progress_log, runs, dequeuedBy, releases>>
    /\ UNCHANGED <<streamVars, recipeVars, extVars>>

\* Variant: the error summary names every model of the plan
JobSettleBlameAll(j) ==
    /\ jobpc[j] = "pool"
    /\ AllTasksSettled(j)
    /\ LET ev == IF errors[j] # <<>>
                 THEN [event |-> "job_failed", error |-> PlanOf(j)]
                 ELSE [event |-> "job_complete"]
       IN /\ sse' = push_event(sse, j, ev)
          /\ published' = Record(published, j, ev)
    /\ jobpc' = [jobpc EXCEPT ![j] = "done"]
    /\ UNCHANGED <<job_queue, job_data, gpu_locks, job_status, progress>>
    /\ UNCHANGED <<gpu_lock, reqpc, pc, gpu_id, stage, result, errors>>
    /\ UNCHANGED <<progress_log, runs, dequeuedBy, releases>>
    /\ UNCHANGED <<streamVars, recipeVars, extVars>>

\* Lines 159-167, after the with-block has joined every task
JobSettle(j) ==
    /\ jobpc[j] = "pool"
    /\ AllTasksSettled(j)
    /\ LET ev == IF errors[j] # <<>>
                 THEN [event |-> "job_failed", error |-> errors[j]]
                 ELSE [event |-> "job_complete"]
       IN /\ sse' = push_event(sse, j, ev)
          /\ published' = Record(published, j, ev)
    /\ jobpc' = [jobpc EXCEPT ![j] = "done"]
    /\ UNCHANGED <<job_queue, job_data, gpu_locks, job_status, progress>>
    /\ UNCHANGED <<gpu_lock, reqpc, pc, gpu_id, stage, result, errors>>
    /\ UNCHANGED <<progress_log, runs, dequeuedBy, releases>>
    /\ UNCHANGED <<streamVars, recipeVars, extVars>>

(***************************************************************************)
(* GPUScheduler._run_single_model (scheduler.py 82-113), one task per step *)
(***************************************************************************)
\* Variant: the task starts without line 88
StepBeginSilent(j, m) ==
    /\ jobpc[j] = "pool"
    /\ pc[j][m] = "submitted"
    /\ Cardinality(Active(j)) < PoolSize(j)
    /\ \A i \in 1..(PositionIn(PlanOf(j), m) - 1) : pc[j][PlanOf(j)[i]] # "submitted"
    /\ pc' = [pc EXCEPT ![j][m] = "waiting"]
    /\ UNCHANGED <<redisVars, gpu_lock, reqpc, jobpc, gpu_id, stage, result, errors>>
    /\ UNCHANGED <<histVars, streamVars, recipeVars, extVars>>

\* A pool worker takes the task (tasks start in submission order, at most
\* max_workers at a time); line 88: set_job_status(..., "waiting_gpu")
StepBegin(j, m) ==
    /\ jobpc[j] = "pool"
    /\ pc[j][m] = "submitted"
    /\ Cardinality(Active(j)) < PoolSize(j)
    /\ \A i \in 1..(PositionIn(PlanOf(j), m) - 1) : pc[j][PlanOf(j)[i]] # "submitted"
    /\ job_status' = set_job_status(job_status, j, m, "waiting_gpu")
    /\ pc' = [pc EXCEPT ![j][m] = "waiting"]
    /\ UNCHANGED <<job_queue, job_data, gpu_locks, progress, sse>>
    /\ UNCHANGED <<gpu_lock, reqpc, jobpc, gpu_id, stage, result, errors>>
    /\ UNCHANGED <<histVars, streamVars, recipeVars, extVars>>

\* acquire_gpu, lines 61-69: take _gpu_lock and scan the slots; mem is the
\* outcome of the nvidia-smi probes.  A scan that finds no slot returns
\* None, the task sleeps and calls again: no state changes.
AcquireScan(j, m) ==
    /\ pc[j][m] = "waiting"
    /\ CanEnterLock(OwnerTag(j, m))
    /\ \E mem \in [Gpus -> BOOLEAN] :
          /\ FirstQualifying(gpu_locks, mem) # NoGpu
          /\ gpu_id' = [gpu_id EXCEPT ![j][m] = FirstQualifying(gpu_locks, mem)]
    /\ gpu_lock' = OwnerTag(j, m)
    /\ pc' = [pc EXCEPT ![j][m] = "locked"]
    /\ UNCHANGED <<redisVars, reqpc, jobpc, stage, result, errors>>
    /\ UNCHANGED <<histVars, streamVars, recipeVars, extVars>>

\* acquire_gpu, lines 70-72: hset the slot to "<sid>:<model>", leave the
\* with-block, return the slot id
AcquireWrite(j, m) ==
    /\ pc[j][m] = "locked"
    /\ gpu_locks' = [gpu_locks EXCEPT ![gpu_id[j][m]] = OwnerTag(j, m)]
    /\ gpu_lock' = "nobody"
    /\ pc' = [pc EXCEPT ![j][m] = "acquired"]
    /\ UNCHANGED <<job_queue, job_data, job_status, progress, sse>>
    /\ UNCHANGED <<reqpc, jobpc, gpu_id, stage, result, errors>>
    /\ UNCHANGED <<histVars, streamVars, recipeVars, extVars>>

\* Variant: line 97 moved above the wait loop of lines 91-95
SetRunningBeforeAcquire(j, m) ==
    /\ pc[j][m] = "waiting"
    /\ job_status' = set_job_status(job_status, j, m, "running")
    /\ pc' = [pc EXCEPT ![j][m] = "running"]
    /\ UNCHANGED <<job_queue, job_data, gpu_locks, progress, sse>>
    /\ UNCHANGED <<gpu_lock, reqpc, jobpc, gpu_id, stage, result, errors>>
    /\ UNCHANGED <<histVars, streamVars, recipeVars, extVars>>

\* Line 97: set_job_status(..., "running")
SetRunning(j, m) ==
    /\ pc[j][m] = "acquired"
    /\ job_status' = set_job_status(job_status, j, m, "running")
    /\ pc' = [pc EXCEPT ![j][m] = "running"]
    /\ UNCHANGED <<job_queue, job_data, gpu_locks, progress, sse>>
    /\ UNCHANGED <<gpu_lock, reqpc, jobpc, gpu_id, stage, result, errors>>
    /\ UNCHANGED <<histVars, streamVars, recipeVars, extVars>>

\* Line 100: ModelRunner(...) raises (get_model_config: model not found);
\* nothing was emitted, control goes to the except branch of line 104
RunnerCtorRaise(j, m) ==
    /\ pc[j][m] = "running"
    /\ stage[j][m] = 0
    /\ pc' = [pc EXCEPT ![j][m] = "raised"]
    /\ UNCHANGED <<redisVars, gpu_lock, reqpc, jobpc, gpu_id, stage, result, errors>>
    /\ UNCHANGED <<histVars, streamVars, recipeVars, extVars>>

\* ModelRunner.run: the next _emit (push_event, log_event, set_progress)
RunnerEmit(j, m) ==
    /\ pc[j][m] = "running"
    /\ stage[j][m] < Len(EmitSeq(m))
    /\ LET e == EmitSeq(m)[stage[j][m] + 1]
           ev == Payload(m, e.event, e.progress, gpu_id[j][m])
       IN /\ sse' = push_event(sse, j, ev)
          /\ published' = Record(published, j, ev)
          /\ progress' = set_progress(progress, j, m, e.progress)
          /\ progress_log' = [progress_log EXCEPT ![j][m] = Append(@, e.progress)]
    /\ stage' = [stage EXCEPT ![j][m] = @ + 1]
    /\ UNCHANGED <<job_queue, job_data, gpu_locks, job_status>>
    /\ UNCHANGED <<gpu_lock, reqpc, jobpc, pc, gpu_id, result, errors>>
    /\ UNCHANGED <<runs, dequeuedBy, releases>>
    /\ UNCHANGED <<streamVars, recipeVars, extVars>>

\* ModelRunner.run, lines 218-229: a stage raises; the except branch
\* emits model_error with progress -1 and re-raises
RunnerRaise(j, m) ==
    /\ pc[j][m] = "running"
    /\ CanRaiseAfter(m, stage[j][m])
    /\ LET ev == PayloadDetail(m, "model_error", ErrorProgress, gpu_id[j][m])
       IN /\ sse' = push_event(sse, j, ev)
          /\ published' = Record(published, j, ev)
          /\ progress' = set_progress(progress, j, m, ErrorProgress)
          /\ progress_log' = [progress_log EXCEPT ![j][m] = Append(@, ErrorProgress)]
    /\ pc' = [pc EXCEPT ![j][m] = "raised"]
    /\ UNCHANGED <<job_queue, job_data, gpu_locks, job_status>>
    /\ UNCHANGED <<gpu_lock, reqpc, jobpc, gpu_id, stage, result, errors>>
    /\ UNCHANGED <<runs, dequeuedBy, releases>>
    /\ UNCHANGED <<streamVars, recipeVars, extVars>>

\* Lines 102-103: run() returned; set_job_status(..., "complete"); return
SetComplete(j, m) ==
    /\ pc[j][m] = "running"
    /\ stage[j][m] = Len(EmitSeq(m))
    /\ job_status' = set_job_status(job_status, j, m, "complete")
    /\ result' = [result EXCEPT ![j][m] = "ok"]
    /\ pc' = [pc EXCEPT ![j][m] = "finally"]
    /\ UNCHANGED <<job_queue, job_data, gpu_locks, progress, sse>>
    /\ UNCHANGED <<gpu_lock, reqpc, jobpc, gpu_id, stage, errors>>
    /\ UNCHANGED <<histVars, streamVars, recipeVars, extVars>>

\* Lines 104-111: the except branch publishes model_error (no progress
\* field), sets the status to "error" and returns (model, False, msg)
ExceptBranch(j, m) ==
    /\ pc[j][m] = "raised"
    /\ LET ev == [event |-> "model_error", model |-> m, error |-> "err"]
       IN /\ sse' = push_event(sse, j, ev)
          /\ published' = Record(published, j, ev)
    /\ job_status' = set_job_status(job_status, j, m, "error")
    /\ result' = [result EXCEPT ![j][m] = "failed"]
    /\ pc' = [pc EXCEPT ![j][m] = "finally"]
    /\ UNCHANGED <<job_queue, job_data, gpu_locks, progress>>
    /\ UNCHANGED <<gpu_lock, reqpc, jobpc, gpu_id, stage, errors>>
    /\ UNCHANGED <<progress_log, runs, dequeuedBy, releases>>
    /\ UNCHANGED <<streamVars, recipeVars, extVars>>

\* Lines 112-113 and release_gpu (75-80): under _gpu_lock, hset the slot to
\* "free"; the task ends and run_job's as_completed loop (149-157) records
\* a failed result in errors
ReleaseGpu(j, m) ==
    /\ pc[j][m] = "finally"
    /\ CanEnterLock(OwnerTag(j, m))
    /\ gpu_locks' = [gpu_locks EXCEPT ![gpu_id[j][m]] = "free"]
    /\ releases' = [releases EXCEPT ![j][m] = @ + 1]
    /\ errors' = [errors EXCEPT ![j] = IF result[j][m] = "ok" THEN @ ELSE Append(@, m)]
    /\ pc' = [pc EXCEPT ![j][m] = "done"]
    /\ UNCHANGED <<job_queue, job_data, job_status, progress, sse>>
    /\ UNCHANGED <<gpu_lock, reqpc, jobpc, gpu_id, stage, result>>
    /\ UNCHANGED <<published, progress_log, runs, dequeuedBy>>
    /\ UNCHANGED <<streamVars, recipeVars, extVars>>

(***************************************************************************)
(* Failures of the shared store.  A Redis command can raise (connection    *)
(* lost, timeout); the exception propagates like any other.                *)
(***************************************************************************)
\* Line 97 raises: the call is outside the try, so the exception leaves
\* _run_single_model without reaching the finally; future.result() raises
\* in run_job, which records the model in errors (lines 155-157)
SetRunningFails(j, m) ==
    /\ pc[j][m] = "acquired"
    /\ result' = [result EXCEPT ![j][m] = "raised"]
    /\ errors' = [errors EXCEPT ![j] = Append(@, m)]
    /\ pc' = [pc EXCEPT ![j][m] = "done"]
    /\ UNCHANGED <<redisVars, gpu_lock, reqpc, jobpc, gpu_id, stage>>
    /\ UNCHANGED <<histVars, streamVars, recipeVars, extVars>>

\* push_event inside _emit raises: run()'s except branch calls
\* _emit("model_error", -1), whose push_event raises again; the exception
\* reaches the except branch of _run_single_model with nothing published
RunnerEmitFails(j, m) ==
    /\ pc[j][m] = "running"
    /\ stage[j][m] < Len(EmitSeq(m))
    /\ pc' = [pc EXCEPT ![j][m] = "raised"]
    /\ push_failed' = push_failed \cup {<<j, m>>}
    /\ UNCHANGED <<redisVars, gpu_lock, reqpc, jobpc, gpu_id, stage, result, errors>>
    /\ UNCHANGED <<histVars, streamVars, recipeVars, besideBus>>

\* run_job line 137: push_event(job_start) raises; nothing in run_job
\* catches it, the job's thread ends with the exception
JobStartPushFails(j) ==
    /\ jobpc[j] = "start"
    /\ j \in DOMAIN job_data
    /\ jobpc' = [jobpc EXCEPT ![j] = "raised"]
    /\ push_failed' = push_failed \cup {<<j, "job">>}
    /\ UNCHANGED <<redisVars, gpu_lock, reqpc, pc, gpu_id, stage, result, errors>>
    /\ UNCHANGED <<histVars, streamVars, recipeVars, besideBus>>

\* Line 102 raises after run() returned: control goes to the except branch
SetCompleteFails(j, m) ==
    /\ pc[j][m] = "running"
    /\ stage[j][m] = Len(EmitSeq(m))
    /\ pc' = [pc EXCEPT ![j][m] = "raised"]
    /\ UNCHANGED <<redisVars, gpu_lock, reqpc, jobpc, gpu_id, stage, result, errors>>
    /\ UNCHANGED <<histVars, streamVars, recipeVars, extVars>>

\* Line 108 raises inside the except branch: the status stays as it was,
\* the finally still runs, the exception reaches future.result()
ExceptBranchFails(j, m) ==
    /\ pc[j][m] = "raised"
    /\ result' = [result EXCEPT ![j][m] = "raised"]
    /\ pc' = [pc EXCEPT ![j][m] = "finally"]
    /\ UNCHANGED <<redisVars, gpu_lock, reqpc, jobpc, gpu_id, stage, errors>>
    /\ UNCHANGED <<histVars, streamVars, recipeVars, extVars>>

(***************************************************************************)
(* Spec: one session on one accelerator.  The request handler's enqueue,   *)
(* the scheduler loop the application starts (app.py 35), the run_job      *)
(* thread and its tasks, with a reliable shared store.                     *)
(***************************************************************************)
Next ==
    \/ \E plan \in Plans : EnqueueStore(StreamSid, plan)
    \/ EnqueueStatus(StreamSid)
    \/ EnqueueEvent(StreamSid)
    \/ LoopDequeue(1)
    \/ JobStart(StreamSid)
    \/ JobSettle(StreamSid)
    \/ \E m \in Models : StepBegin(StreamSid, m)
    \/ \E m \in Models : AcquireScan(StreamSid, m)
    \/ \E m \in Models : AcquireWrite(StreamSid, m)
    \/ \E m \in Models : SetRunning(StreamSid, m)
    \/ \E m \in Models : RunnerCtorRaise(StreamSid, m)
    \/ \E m \in Models : RunnerEmit(StreamSid, m)
    \/ \E m \in Models : RunnerRaise(StreamSid, m)
    \/ \E m \in Models : SetComplete(StreamSid, m)
    \/ \E m \in Models : ExceptBranch(StreamSid, m)
    \/ \E m \in Models : ReleaseGpu(StreamSid, m)

Spec == Init /\ [][Next]_vars

(***************************************************************************)
(* SpecFault: the same session, with a shared store whose writes can fail  *)
(* once a task holds its slot.                                             *)
(***************************************************************************)
NextFault ==
    \/ Next
    \/ \E m \in Models : SetRunningFails(StreamSid, m)
    \/ \E m \in Models : RunnerEmitFails(StreamSid, m)
    \/ \E m \in Models : SetCompleteFails(StreamSid, m)
    \/ \E m \in Models : ExceptBranchFails(StreamSid, m)
    \/ JobStartPushFails(StreamSid)

SpecFault == Init /\ [][NextFault]_vars

(***************************************************************************)
(* SpecSlots: the slot arbiter under contention.  MaxJobs sessions, each   *)
(* with a one-step plan, have been enqueued; the scheduler has 1..NumGpus  *)
(* slots; the tasks of the sessions compete for them.                      *)
(***************************************************************************)
OneStepPlan(i) == <<ModelNames[((i - 1) % MaxSteps) + 1]>>

InitSlots ==
    /\ \E n \in 1..NumGpus :
          SchedInit(n, [i \in 1..MaxJobs |-> <<SessionIds[i], OneStepPlan(i)>>])
    /\ StreamInit
    /\ RecipeInit
    /\ ExtInit

NextSlots ==
    \/ LoopDequeue(1)
    \/ \E j \in Jobs : JobStart(j)
    \/ \E j \in Jobs : JobSettle(j)
    \/ \E j \in Jobs, m \in Models : StepBegin(j, m)
    \/ \E j \in Jobs, m \in Models : AcquireScan(j, m)
    \/ \E j \in Jobs, m \in Models : AcquireWrite(j, m)
    \/ \E j \in Jobs, m \in Models : SetRunning(j, m)
    \/ \E j \in Jobs, m \in Models : RunnerCtorRaise(j, m)
    \/ \E j \in Jobs, m \in Models : RunnerEmit(j, m)
    \/ \E j \in Jobs, m \in Models : RunnerRaise(j, m)
    \/ \E j \in Jobs, m \in Models : SetComplete(j, m)
    \/ \E j \in Jobs, m \in Models : ExceptBranch(j, m)
    \/ \E j \in Jobs, m \in Models : ReleaseGpu(j, m)

SpecSlots == InitSlots /\ [][NextSlots]_vars

(***************************************************************************)
(* SpecJob: one job whose enqueue has returned, with a plan of one to      *)
(* MaxSteps models, on a scheduler with one slot: the scheduler loop,      *)
(* run_job (scheduler.py 115-167) and its tasks.                           *)
(***************************************************************************)
InitJob ==
    /\ \E plan \in Plans : SchedInit(1, <<<<StreamSid, plan>>>>)
    /\ StreamInit
    /\ RecipeInit
    /\ ExtInit

NextJob ==
    \/ LoopDequeue(1)
    \/ JobStart(StreamSid)
    \/ JobSettle(StreamSid)
    \/ \E m \in Models : StepBegin(StreamSid, m)
    \/ \E m \in Models : AcquireScan(StreamSid, m)
    \/ \E m \in Models : AcquireWrite(StreamSid, m)
    \/ \E m \in Models : SetRunning(StreamSid, m)
    \/ \E m \in Models : RunnerCtorRaise(StreamSid, m)
    \/ \E m \in Models : RunnerEmit(StreamSid, m)
    \/ \E m \in Models : RunnerRaise(StreamSid, m)
    \/ \E m \in Models : SetComplete(StreamSid, m)
    \/ \E m \in Models : ExceptBranch(StreamSid, m)
    \/ \E m \in Models : ReleaseGpu(StreamSid, m)

SpecJob == InitJob /\ [][NextJob]_vars

(***************************************************************************)
(* SpecLoop: MaxJobs one-step jobs in the queue and one slot.  The         *)
(* scheduler loop and the start of each run_job thread always go on (the   *)
(* loop sleeps poll_interval and polls again; a started thread runs); the  *)
(* steps of a job need not: a runner can hang for ever.                    *)
(***************************************************************************)
InitLoop ==
    /\ SchedInit(1, [i \in 1..MaxJobs |-> <<SessionIds[i], OneStepPlan(i)>>])
    /\ StreamInit
    /\ RecipeInit
    /\ ExtInit

\* GPUScheduler.__init__ (scheduler.py 21-25) of one more scheduler
\* instance on the same store (the module is imported by another worker
\* process, or by the restarted server beside a worker that still runs
\* steps): _init_gpu_locks (27-29) sets every slot to "free"
SchedulerConstruct ==
    /\ gpu_locks' = InitGpuLocks(Cardinality(DOMAIN gpu_locks))
    /\ UNCHANGED <<job_queue, job_data, job_status, progress, sse>>
    /\ UNCHANGED <<threadVars, histVars, streamVars, recipeVars, extVars>>

NextRestart ==
    \/ NextSlots
    \/ SchedulerConstruct

\* MaxJobs one-step jobs in the queue and one slot, with further scheduler
\* instances being constructed
SpecRestart == InitLoop /\ [][NextRestart]_vars

SpecLoop ==
    /\ InitLoop
    /\ [][NextSlots]_vars
    /\ WF_vars(LoopDequeue(1))
    /\ \A j \in Jobs : WF_vars(JobStart(j))

(***************************************************************************)
(* SpecQueue: the job queue with NumLoops scheduler loops polling it.      *)
(* Requests enqueue jobs, the loops pop them and start run_job threads.    *)
(***************************************************************************)
NextQueue ==
    \/ \E j \in Jobs, plan \in Plans : EnqueueStore(j, plan)
    \/ \E j \in Jobs : EnqueueStatus(j)
    \/ \E j \in Jobs : EnqueueEvent(j)
    \/ \E l \in Loops : LoopDequeue(l)
    \/ \E j \in Jobs : JobStart(j)

SpecQueue == Init /\ [][NextQueue]_vars

(***************************************************************************)
(* The event stream of one session (sse.py, app.py).                       *)
(***************************************************************************)
\* Tags a publisher of the session can pass to push_event
StreamTags == {"job_start", "job_complete", "job_failed", "roast_complete", "simnibs_complete"}

\* The tuple tested at sse.py line 98
DefaultTerminal == {"job_complete", "job_failed"}

\* The terminate_on arguments of app.py lines 300 and 383
TerminateOn(kind) ==
    CASE kind = "roast" -> {"roast_complete", "roast_error"}
      [] kind = "simnibs" -> {"simnibs_complete", "simnibs_error"}
      [] OTHER -> DefaultTerminal

\* sse_stream is declared with the single parameter session_id (line 54):
\* a call that passes terminate_on raises TypeError when it is made
CallBinds(kind) == kind = "job"

IsSigned(envelope) == envelope.sig = sign_event(envelope.event)

\* EXPIRE 3600 set by push_event: the key is deleted when no event was
\* pushed for an hour.  The events lost are the signed ones still listed.
Listed(sid) == Len(SelectSeq(sse[sid], IsSigned))

\* push_event(session_id, event) by a scheduler or runner of the session
Publish(sid, tag) ==
    /\ Len(published[sid]) < MaxEvents
    /\ sse' = push_event(sse, sid, [event |-> tag])
    /\ published' = Record(published, sid, [event |-> tag])
    /\ UNCHANGED <<job_queue, job_data, gpu_locks, job_status, progress>>
    /\ UNCHANGED <<threadVars, progress_log, runs, dequeuedBy, releases>>
    /\ UNCHANGED <<streamVars, recipeVars, extVars>>

\* One hour passes without a push: Redis deletes sse:<sid>
ExpireKey(sid) ==
    /\ sse[sid] # <<>>
    /\ sse' = [sse EXCEPT ![sid] = <<>>]
    /\ expired' = expired \cup
           ((Len(published[sid]) - Listed(sid) + 1) .. Len(published[sid]))
    /\ UNCHANGED <<job_queue, job_data, gpu_locks, job_status, progress>>
    /\ UNCHANGED <<threadVars, histVars, recipeVars, extVars>>
    /\ UNCHANGED <<stream_pc, stream_kind, emitted, forged>>

\* Another client of the Redis server RPUSHes an envelope of its own making
\* onto sse:<sid>; without the secret its sig is not the HMAC of the event
Forge(sid, tag) ==
    /\ forged < MaxForged
    /\ sse' = [sse EXCEPT ![sid] =
                  Append(@, [event |-> [event |-> tag],
                             sig |-> [key |-> "unknown", msg |-> [event |-> tag]]])]
    /\ forged' = forged + 1
    /\ UNCHANGED <<job_queue, job_data, gpu_locks, job_status, progress>>
    /\ UNCHANGED <<threadVars, histVars, recipeVars, extVars>>
    /\ UNCHANGED <<stream_pc, stream_kind, emitted, expired>>

\* GET /stream/<sid>, /stream/roast/<sid> or /stream/simnibs/<sid>: the
\* endpoint calls sse_stream and hands the generator to StreamingResponse
StreamOpen(kind) ==
    /\ stream_pc = "closed"
    /\ stream_kind' = kind
    /\ stream_pc' = IF CallBinds(kind) THEN "open" ELSE "crashed"
    /\ UNCHANGED <<redisVars, threadVars, histVars, recipeVars, extVars>>
    /\ UNCHANGED <<emitted, expired, forged>>

\* blpop returned a packet (lines 69, 82-99): relay it, stop on a terminal tag
StreamRelay(sid) ==
    /\ stream_pc = "open"
    /\ sse[sid] # <<>>
    /\ LET envelope == Head(sse[sid]) IN
         /\ sse' = [sse EXCEPT ![sid] = Tail(@)]
         /\ emitted' = Append(emitted, [event |-> envelope.event, sig |-> envelope.sig])
         /\ stream_pc' = IF envelope.event.event \in DefaultTerminal
                         THEN "closing" ELSE "open"
    /\ UNCHANGED <<job_queue, job_data, gpu_locks, job_status, progress>>
    /\ UNCHANGED <<threadVars, histVars, recipeVars, extVars>>
    /\ UNCHANGED <<stream_kind, expired, forged>>

\* blpop timed out and nothing was sent for five seconds (lines 72-78)
StreamHeartbeat(sid) ==
    /\ stream_pc = "open"
    /\ sse[sid] = <<>>
    /\ Len(SelectSeq(emitted, LAMBDA e : e.event.event = "heartbeat")) < MaxHeartbeats
    /\ emitted' = Append(emitted, Envelope([event |-> "heartbeat"]))
    /\ UNCHANGED <<redisVars, threadVars, histVars, recipeVars, extVars>>
    /\ UNCHANGED <<stream_pc, stream_kind, expired, forged>>

\* Lines 102-105: the closing stream_end envelope
StreamEnd ==
    /\ stream_pc = "closing"
    /\ emitted' = Append(emitted, Envelope([event |-> "stream_end"]))
    /\ stream_pc' = "ended"
    /\ UNCHANGED <<redisVars, threadVars, histVars, recipeVars, extVars>>
    /\ UNCHANGED <<stream_kind, expired, forged>>

StreamKinds == {"job", "roast", "simnibs"}

(***************************************************************************)
(* SpecStream: publishers and one stream client of session StreamSid.      *)
(***************************************************************************)
NextStream ==
    \/ \E tag \in StreamTags : Publish(StreamSid, tag)
    \/ ExpireKey(StreamSid)
    \/ \E kind \in StreamKinds : StreamOpen(kind)
    \/ StreamRelay(StreamSid)
    \/ StreamHeartbeat(StreamSid)
    \/ StreamEnd

SpecStream == Init /\ [][NextStream]_vars

(***************************************************************************)
(* SpecForged: the same, with a second writer on the session's list.       *)
(***************************************************************************)
NextForged ==
    \/ NextStream
    \/ \E tag \in StreamTags : Forge(StreamSid, tag)

SpecForged == Init /\ [][NextForged]_vars

(***************************************************************************)
(* validate_recipe (roast_config.py 28-44).                                *)
(* A recipe entry is a record: kind "str" (an electrode name), "num" (an   *)
(* int or a finite float, v its value in units of 1e-9 mA), "nan", "inf"   *)
(* or "ninf" (the three non-finite floats).                                *)
(***************************************************************************)
\* The tolerance 1e-9 of line 40, in the unit of v
Tolerance == 1

Entries ==
    {[kind |-> "str", v |-> 0]}
    \cup {[kind |-> "num", v |-> x] : x \in (-MaxCurrent)..MaxCurrent}
    \cup {[kind |-> k, v |-> 0] : k \in {"nan", "inf", "ninf"}}

\* recipe[1::2]
Currents(r) == [i \in 1..(Len(r) \div 2) |-> r[2 * i]]

\* isinstance(c, (int, float))
IsNumber(c) == c.kind \in {"num", "nan", "inf", "ninf"}

\* float addition: nan absorbs, inf + -inf is nan, inf absorbs finite values
FAdd(a, b) ==
    CASE a.kind = "nan" \/ b.kind = "nan" -> [kind |-> "nan", v |-> 0]
      [] a.kind = "inf" /\ b.kind = "ninf" -> [kind |-> "nan", v |-> 0]
      [] a.kind = "ninf" /\ b.kind = "inf" -> [kind |-> "nan", v |-> 0]
      [] a.kind \in {"inf", "ninf"} -> a
      [] b.kind \in {"inf", "ninf"} -> b
      [] OTHER -> [kind |-> "num", v |-> a.v + b.v]

\* sum(currents), left to right from 0
RECURSIVE FSum(_, _)
FSum(cs, k) ==
    IF k = 0 THEN [kind |-> "num", v |-> 0]
    ELSE FAdd(FSum(cs, k - 1), cs[k])

\* abs(x) > 1e-9: every comparison with nan is False
AbsExceeds(x, tol) ==
    CASE x.kind = "nan" -> FALSE
      [] x.kind \in {"inf", "ninf"} -> TRUE
      [] OTHER -> (IF x.v < 0 THEN -x.v ELSE x.v) > tol

validate_recipe(r) ==
    IF Len(r) % 2 # 0 THEN "ValueError"
    ELSE IF \E i \in 1..Len(Currents(r)) : ~IsNumber(Currents(r)[i]) THEN "ValueError"
    ELSE IF AbsExceeds(FSum(Currents(r), Len(Currents(r))), Tolerance) THEN "ValueError"
    ELSE "accepted"

\* The caller builds its argument one entry at a time ...
RecipeAppend(e) ==
    /\ verdict = "none"
    /\ Len(recipe) < 2 * MaxPairs
    /\ recipe' = Append(recipe, e)
    /\ UNCHANGED <<redisVars, threadVars, histVars, streamVars, extVars, verdict>>

\* ... and calls validate_recipe(recipe)
ValidateRecipe ==
    /\ verdict = "none"
    /\ verdict' = validate_recipe(recipe)
    /\ UNCHANGED <<redisVars, threadVars, histVars, streamVars, extVars, recipe>>

NextRecipe ==
    \/ \E e \in Entries : RecipeAppend(e)
    \/ ValidateRecipe

SpecRecipe == Init /\ [][NextRecipe]_vars

(***************************************************************************)
(* Session directories and cleanup_old_sessions (session.py 102-125),      *)
(* called every hour by cleanup_loop (app.py 47-56) with max_age_hours=24. *)
(***************************************************************************)
\* max_age_hours = 24, in the unit of the clock
MaxAge == 2

\* create_session (session.py 58-69): mkdir of sessions/<id>
CreateSessionDir(j) ==
    /\ j \notin DOMAIN dir_mtime
    /\ j \notin serving
    /\ dir_mtime' = HSet(dir_mtime, j, now)
    /\ UNCHANGED <<notReap, now, serving, reaped>>

\* A job of the session is enqueued (/predict, /simulate): nothing is
\* written into the session directory by the enqueue
ServeBegin(j) ==
    /\ j \in DOMAIN dir_mtime
    /\ j \notin serving
    /\ serving' = serving \cup {j}
    /\ UNCHANGED <<notReap, now, dir_mtime, reaped>>

\* The job writes into the session.  Only the creation of a new entry of
\* sessions/<id> itself (the first <model>/ or roast/ directory) changes the
\* directory's st_mtime; appends to logs.jsonl and writes below an existing
\* subdirectory do not.  A write after the directory was removed recreates
\* it (mkdir(parents=True, exist_ok=True)).
ServeWrite(j, newEntry) ==
    /\ j \in serving
    /\ newEntry \/ j \notin DOMAIN dir_mtime
    /\ dir_mtime' = HSet(dir_mtime, j, now)
    /\ UNCHANGED <<notReap, now, serving, reaped>>

\* The job of the session ends
ServeEnd(j) ==
    /\ j \in serving
    /\ serving' = serving \ {j}
    /\ UNCHANGED <<notReap, now, dir_mtime, reaped>>

\* Twelve hours pass
Tick ==
    /\ now < MaxClock
    /\ now' = now + 1
    /\ UNCHANGED <<notReap, dir_mtime, serving, reaped>>

\* cleanup_old_sessions(max_age): the directories the sweep removes
Stale(max_age) == {j \in DOMAIN dir_mtime : dir_mtime[j] < now - max_age}

\* The names bound in cleanup_old_sessions when line 120 is evaluated
SweepNames == {"max_age_hours", "cutoff", "deleted", "sessions_root",
               "session_dir"}

\* Lines 118-123 after a successful rmtree: the f-string of line 120 reads
\* max_age_days; an unbound name raises NameError inside the try, the
\* except clause logs the failure line and line 121 is not reached
AfterRmtree ==
    IF "max_age_days" \in SweepNames
    THEN [line |-> "Cleaned up old session", counted |-> 1]
    ELSE [line |-> "Failed to delete session", counted |-> 0]

\* `deleted` at the return of line 125, after these removals
DeletedAfter(removed) == Cardinality(removed) * AfterRmtree.counted

\* One sweep: rmtree of every directory whose st_mtime < cutoff.  (The
\* log_info call after rmtree raises NameError, which the except clause
\* catches: the directory is gone all the same.)
CleanupOldSessions ==
    /\ Stale(MaxAge) # {}
    /\ sweep' = [removed |-> Stale(MaxAge),
                 ret |-> DeletedAfter(Stale(MaxAge)),
                 logs |-> {[sid |-> j, line |-> AfterRmtree.line] : j \in Stale(MaxAge)}]
    /\ dir_mtime' = [j \in (DOMAIN dir_mtime) \ Stale(MaxAge) |-> dir_mtime[j]]
    /\ reaped' = reaped \cup
           {[sid |-> j, mtime |-> dir_mtime[j], cutoff |-> now - MaxAge,
             serving |-> j \in serving] : j \in Stale(MaxAge)}
    /\ UNCHANGED <<coreVars, besideSweep, now, serving>>

NextReap ==
    \/ \E j \in Jobs : CreateSessionDir(j)
    \/ \E j \in Jobs : ServeBegin(j)
    \/ \E j \in Jobs, newEntry \in BOOLEAN : ServeWrite(j, newEntry)
    \/ \E j \in Jobs : ServeEnd(j)
    \/ Tick
    \/ CleanupOldSessions

SpecReap == Init /\ [][NextReap]_vars

(***************************************************************************)
(* The session path functions (session.py 13-52).  A path is the sequence  *)
(* of its components; a function yields the path it returns (<<>> when it  *)
(* raises) and the directory it passes to mkdir(parents=True,              *)
(* exist_ok=True), if any.                                                 *)
(***************************************************************************)
NoDir == <<>>

session_path(sid) == SESSION_DIR \o <<sid>>

session_input_native(sid) ==
    [path |-> session_path(sid) \o <<"input_native.nii.gz">>, mkdir |-> NoDir]

session_input_fs(sid) ==
    [path |-> session_path(sid) \o <<"input_fs.nii">>, mkdir |-> NoDir]

model_output_path_elsewhere(sid, model_name) ==
    [path  |-> session_path(sid) \o <<model_name, "output.nii.gz">>,
     mkdir |-> session_path(sid) \o <<"roast">>]

model_output_path(sid, model_name) ==
    [path  |-> session_path(sid) \o <<model_name, "output.nii.gz">>,
     mkdir |-> session_path(sid) \o <<model_name>>]

roast_working_dir(sid) ==
    [path |-> session_path(sid) \o <<"roast">>,
     mkdir |-> session_path(sid) \o <<"roast">>]

OutputTypes == {"voltage", "efield", "emag"}

filenames(output_type) ==
    CASE output_type = "voltage" -> "T1_tDCSLAB_v.nii"
      [] output_type = "efield"  -> "T1_tDCSLAB_e.nii"
      [] output_type = "emag"    -> "T1_tDCSLAB_emag.nii"

\* The type is looked up before roast_working_dir is called: an unknown type
\* raises ValueError and nothing is created
roast_output_path(sid, output_type) ==
    IF output_type \notin OutputTypes
    THEN [path |-> <<>>, mkdir |-> NoDir]
    ELSE [path  |-> roast_working_dir(sid).path \o <<filenames(output_type)>>,
          mkdir |-> roast_working_dir(sid).mkdir]

PathFunctions == {"session_input_native", "session_input_fs",
                  "model_output_path", "roast_working_dir",
                  "roast_output_path"}

\* The arguments a function is called with besides the session id
ArgsOf(fn) ==
    CASE fn = "model_output_path" -> Models
      [] fn = "roast_output_path" -> OutputTypes \cup {"current"}
      [] OTHER -> {""}

Apply(fn, sid, arg) ==
    CASE fn = "session_input_native" -> session_input_native(sid)
      [] fn = "session_input_fs"     -> session_input_fs(sid)
      [] fn = "model_output_path"    -> model_output_path(sid, arg)
      [] fn = "roast_working_dir"    -> roast_working_dir(sid)
      [] fn = "roast_output_path"    -> roast_output_path(sid, arg)

\* Path.mkdir(parents=True, exist_ok=True): the directory and its ancestors
AncestorsOrSelf(p) == {SubSeq(p, 1, k) : k \in 1..Len(p)}

Ancestors(p) == AncestorsOrSelf(p) \ {p}

\* The operation is recorded when it makes the session directory
Made(sid, op) ==
    /\ session_path(sid) \in fs_dirs' \ fs_dirs => Len(mkdirs) < MaxMkdirs
    /\ mkdirs' = IF session_path(sid) \in fs_dirs' \ fs_dirs
                 THEN Append(mkdirs, op) ELSE mkdirs

\* One call of a path function
PathCall(fn, sid, arg) ==
    LET r == Apply(fn, sid, arg) IN
    /\ fs_dirs' = fs_dirs \cup AncestorsOrSelf(r.mkdir)
    /\ Made(sid, "path function")
    /\ fs_files' = fs_files
    /\ last_call' = [fn |-> fn, sid |-> sid, arg |-> arg, ret |-> r.path,
                     dirs_made |-> fs_dirs' \ fs_dirs,
                     files_made |-> fs_files' \ fs_files]
    /\ prev_call' = last_call
    /\ UNCHANGED notPath

\* The caller writes the file whose path it was given (file.save, nib.save,
\* the ROAST outputs): the directory must exist
WriteReturned ==
    /\ last_call.ret # <<>>
    /\ last_call.ret \notin fs_dirs
    /\ last_call.ret \notin fs_files
    /\ Ancestors(last_call.ret) \subseteq fs_dirs
    /\ Cardinality(fs_files) < MaxFiles
    /\ fs_files' = fs_files \cup {last_call.ret}
    /\ UNCHANGED <<notPath, fs_dirs, last_call, prev_call, mkdirs>>

\* create_session (session.py 58-69): mkdir of the session directory; the
\* session id is a fresh uuid4, so a session is created once
MakeSessionDir(sid) ==
    /\ session_path(sid) \notin fs_dirs
    /\ \A i \in DOMAIN mkdirs : mkdirs[i] # "create_session"
    /\ fs_dirs' = fs_dirs \cup AncestorsOrSelf(session_path(sid))
    /\ Made(sid, "create_session")
    /\ UNCHANGED <<notPath, fs_files, last_call, prev_call>>

\* write_log (logger.py 12-29): mkdir(parents=True, exist_ok=True) of the
\* parent of <SESSION_DIR>/<sid>/logs.jsonl, then append a line to the file
log_path(sid) == session_path(sid) \o <<"logs.jsonl">>

write_log(sid) ==
    /\ fs_dirs' = fs_dirs \cup AncestorsOrSelf(session_path(sid))
    /\ fs_files' = fs_files \cup {log_path(sid)}
    /\ Made(sid, "write_log")
    /\ UNCHANGED <<notPath, last_call, prev_call>>

Below(p, q) == Len(q) >= Len(p) /\ SubSeq(q, 1, Len(p)) = p

\* shutil.rmtree(session_dir) of the sweep
RemoveTree(sid) ==
    /\ session_path(sid) \in fs_dirs
    /\ fs_dirs' = {d \in fs_dirs : ~Below(session_path(sid), d)}
    /\ fs_files' = {f \in fs_files : ~Below(session_path(sid), f)}
    /\ UNCHANGED <<notPath, last_call, prev_call, mkdirs>>

NextPaths ==
    \/ \E fn \in PathFunctions :
           \E arg \in ArgsOf(fn) : PathCall(fn, StreamSid, arg)
    \/ WriteReturned
    \/ MakeSessionDir(StreamSid)
    \/ RemoveTree(StreamSid)

SpecPaths == Init /\ [][NextPaths]_vars

\* The same with the log writes of the session (session_log, log_event,
\* log_error of a request or of a step that is still running)
NextDirs ==
    \/ NextPaths
    \/ write_log(StreamSid)

SpecDirs == Init /\ [][NextDirs]_vars

(***************************************************************************)
(* POST /predict (app.py 96-164) up to the enqueue: the handler creates    *)
(* the session, saves the upload and calls InferenceOrchestrator.start_job *)
(* (inference.py 115-141), then scheduler.enqueue.  The constructor call   *)
(* of app.py 137-142 passes convert_to_fs, which __init__ of inference.py  *)
(* 29 does not take; the handler is modelled as if the call bound.         *)
(***************************************************************************)
\* start_job: push_event(session_id, {"event": "orchestrator_start"})
OrchestratorStart(j, plan) ==
    /\ orch_pc[j] = "idle"
    /\ reqpc[j] = "idle"
    /\ sse' = push_event(sse, j, [event |-> "orchestrator_start"])
    /\ published' = Record(published, j, [event |-> "orchestrator_start"])
    /\ orch_pc' = [orch_pc EXCEPT ![j] = "started"]
    /\ orch_plan' = [orch_plan EXCEPT ![j] = plan]
    /\ UNCHANGED <<job_queue, job_data, gpu_locks, job_status, progress>>
    /\ UNCHANGED <<threadVars, progress_log, runs, dequeuedBy, releases>>
    /\ UNCHANGED <<streamVars, recipeVars, besidePred, pos, responses>>

\* registry.py 27-117: the names MODEL_REGISTRY has an entry for
MODEL_REGISTRY == SeqRange(ModelNames)

\* A name the registry does not have
UnknownModel == "no-such-model"

\* Variant: a default configuration for a name that is not registered
get_model_config_default(model_name) ==
    <<[space |-> ModelSpace(model_name)]>>

\* get_model_config (registry.py 125-128): the entry, <<cfg>>, or <<>> for
\* the ValueError raised for a name that is not registered
get_model_config(model_name) ==
    IF model_name \notin MODEL_REGISTRY
    THEN <<>>
    ELSE <<[space |-> ModelSpace(model_name)]>>

\* build_model_plan (inference.py 71-112) goes through self.models in
\* order: the models before the first one get_model_config raises for
Planned(models) ==
    LET bad == {i \in 1..Len(models) : get_model_config(models[i]) = <<>>}
    IN  SubSeq(models, 1, IF bad = {} THEN Len(models)
                          ELSE (CHOOSE i \in bad : \A k \in bad : i <= k) - 1)

\* start_job: prepare_inputs; build_model_plan (status "prepared" for each
\* model, up to a model that is not registered, where get_model_config
\* raises out of start_job and of the handler); push_event(session_id,
\* {"event": "input_ready"})
BuildModelPlan(j) ==
    /\ orch_pc[j] = "started"
    /\ job_status' = [k \in (DOMAIN job_status) \cup
                            {StatusKey(j, m) : m \in SeqRange(Planned(orch_plan[j]))} |->
                         IF k \in {StatusKey(j, m) : m \in SeqRange(Planned(orch_plan[j]))}
                         THEN "prepared" ELSE job_status[k]]
    /\ IF Planned(orch_plan[j]) = orch_plan[j]
       THEN /\ sse' = push_event(sse, j, [event |-> "input_ready"])
            /\ published' = Record(published, j, [event |-> "input_ready"])
            /\ orch_pc' = [orch_pc EXCEPT ![j] = "planned"]
       ELSE /\ orch_pc' = [orch_pc EXCEPT ![j] = "raised"]
            /\ UNCHANGED <<sse, published>>
    /\ UNCHANGED <<job_queue, job_data, gpu_locks, progress>>
    /\ UNCHANGED <<threadVars, progress_log, runs, dequeuedBy, releases>>
    /\ UNCHANGED <<streamVars, recipeVars, besidePred>>
    /\ UNCHANGED <<orch_plan, pos, responses>>

\* scheduler.enqueue(job_id=session_id, payload={..., "plan": plan}): its
\* first statements
PredictEnqueue(j) ==
    /\ orch_pc[j] = "planned"
    /\ EnqueueStore(j, orch_plan[j])

(***************************************************************************)
(* SpecPredict: one /predict request from its first statement on, the      *)
(* scheduler loop, the run_job thread and its tasks.                       *)
(***************************************************************************)
NextPredict ==
    \/ \E plan \in Plans : OrchestratorStart(StreamSid, plan)
    \/ BuildModelPlan(StreamSid)
    \/ PredictEnqueue(StreamSid)
    \/ EnqueueStatus(StreamSid)
    \/ EnqueueEvent(StreamSid)
    \/ LoopDequeue(1)
    \/ JobStart(StreamSid)
    \/ JobSettle(StreamSid)
    \/ \E m \in Models : StepBegin(StreamSid, m)
    \/ \E m \in Models : AcquireScan(StreamSid, m)
    \/ \E m \in Models : AcquireWrite(StreamSid, m)
    \/ \E m \in Models : SetRunning(StreamSid, m)
    \/ \E m \in Models : RunnerCtorRaise(StreamSid, m)
    \/ \E m \in Models : RunnerEmit(StreamSid, m)
    \/ \E m \in Models : RunnerRaise(StreamSid, m)
    \/ \E m \in Models : SetComplete(StreamSid, m)
    \/ \E m \in Models : ExceptBranch(StreamSid, m)
    \/ \E m \in Models : ReleaseGpu(StreamSid, m)

SpecPredict == Init /\ [][NextPredict]_vars

\* The same with requests that name a model the registry does not have,
\* as the last or as the first of the list (app.py 134: the names are the
\* comma-separated parts of the form field)
UnknownRequests ==
    {Append(SubSeq(ModelNames, 1, k), UnknownModel) : k \in 0..(MaxSteps - 1)}
    \cup {<<UnknownModel>> \o SubSeq(ModelNames, 1, k) : k \in 0..(MaxSteps - 1)}

NextUnknown ==
    \/ \E plan \in UnknownRequests : OrchestratorStart(StreamSid, plan)
    \/ NextPredict

SpecUnknown == Init /\ [][NextUnknown]_vars

(***************************************************************************)
(* ModelRunner.infer (runner.py 124-158): the retry loop over the          *)
(* tile-batch sizes, between the events inference_start and inference_mid. *)
(***************************************************************************)
batch_sizes == <<2, 1>>

\* What a call of sliding_window_inference can do: return, raise a
\* RuntimeError whose message contains "out of memory", raise another
\* RuntimeError, raise an exception that is not a RuntimeError
Outcomes == {"ok", "oom", "runtime_error", "other_exception"}

\* Variant: every RuntimeError is retried
AfterAttemptRetryAny(k, outcome) ==
    IF outcome = "ok" THEN "ok"
    ELSE IF outcome \in {"oom", "runtime_error"} /\ batch_sizes[k] > batch_sizes[Len(batch_sizes)]
         THEN (IF k < Len(batch_sizes) THEN "loop" ELSE "raise")
         ELSE "raise"

\* Where the loop goes after attempt k: break; continue (a RuntimeError with
\* "out of memory" at a size above the last one); raise.  A loop that ends
\* without a result raises at line 152.
AfterAttempt(k, outcome) ==
    IF outcome = "ok" THEN "ok"
    ELSE IF outcome = "oom" /\ batch_sizes[k] > batch_sizes[Len(batch_sizes)]
         THEN (IF k < Len(batch_sizes) THEN "loop" ELSE "raise")
         ELSE "raise"

\* The number of events run() has published when infer's loop runs
InferStage(m) ==
    CHOOSE k \in 1..Len(EmitSeq(m)) : EmitSeq(m)[k].event = "inference_start"

\* One iteration of the loop of line 133
InferAttempt(j, m, outcome) ==
    /\ pc[j][m] = "running"
    /\ stage[j][m] = InferStage(m)
    /\ inf_pc[j][m] \in {"none", "loop"}
    /\ Len(attempts[j][m]) < Len(batch_sizes)
    /\ LET k == Len(attempts[j][m]) + 1 IN
          /\ attempts' = [attempts EXCEPT ![j][m] =
                             Append(@, [size |-> batch_sizes[k], outcome |-> outcome])]
          /\ inf_pc' = [inf_pc EXCEPT ![j][m] = AfterAttempt(k, outcome)]
    /\ UNCHANGED notInfer

\* run() goes on: inside infer only once the loop has left with a result
InferRunnerEmit(j, m) ==
    /\ stage[j][m] = InferStage(m) => inf_pc[j][m] = "ok"
    /\ RunnerEmit(j, m)

\* run() raises: inside infer only when the loop raised
InferRunnerRaise(j, m) ==
    /\ stage[j][m] = InferStage(m) => inf_pc[j][m] = "raise"
    /\ RunnerRaise(j, m)

(***************************************************************************)
(* SpecInfer: SpecJob with the retry loop of infer spelled out.            *)
(***************************************************************************)
NextInfer ==
    \/ LoopDequeue(1)
    \/ JobStart(StreamSid)
    \/ JobSettle(StreamSid)
    \/ \E m \in Models : StepBegin(StreamSid, m)
    \/ \E m \in Models : AcquireScan(StreamSid, m)
    \/ \E m \in Models : AcquireWrite(StreamSid, m)
    \/ \E m \in Models : SetRunning(StreamSid, m)
    \/ \E m \in Models : RunnerCtorRaise(StreamSid, m)
    \/ \E m \in Models : InferRunnerEmit(StreamSid, m)
    \/ \E m \in Models, outcome \in Outcomes : InferAttempt(StreamSid, m, outcome)
    \/ \E m \in Models : InferRunnerRaise(StreamSid, m)
    \/ \E m \in Models : SetComplete(StreamSid, m)
    \/ \E m \in Models : ExceptBranch(StreamSid, m)
    \/ \E m \in Models : ReleaseGpu(StreamSid, m)

SpecInfer == InitJob /\ [][NextInfer]_vars

(***************************************************************************)
(* ROASTRunner.run (roast_runner.py 127-206) and the child process it      *)
(* starts.  The child writes lines into a pipe and exits when it likes;    *)
(* the runner reads the pipe line by line.  run_charm of simnibs_runner.py *)
(* (178-209) has the same loop.                                            *)
(***************************************************************************)
\* The lines the child can write
Lines == {"noise", "STEP 5", "ROAST_RUN: COMPLETE"}

\* STEP_MAP: the event and percentage of a line (none for other lines)
STEP_MAP(line) ==
    CASE line = "STEP 5" -> <<[event |-> "roast_step_solve", progress |-> 60]>>
      [] line = "ROAST_RUN: COMPLETE" -> <<[event |-> "roast_complete", progress |-> 100]>>
      [] OTHER -> <<>>

\* The exceptions run() can leave its try block with, and str(e) of each
Raised ==
    [k \in {"raised:prepare", "raised:launch", "raised:timeout",
            "raised:exit code", "raised:missing output"} |->
        SubSeq(k, 8, Len(k))]

\* Lines 132-168: status running, roast_start, prepare, roast_prepare,
\* Popen, last_progress = 5, deadline = now + ROAST_TIMEOUT_SECONDS
SimLaunch ==
    /\ sim_pc = "idle"
    /\ roast_status' = "running"
    /\ sim_events' = sim_events \o <<[event |-> "roast_start", progress |-> 2],
                                     [event |-> "roast_prepare", progress |-> 5]>>
    /\ child' = "running"
    /\ last_progress' = 5
    /\ sim_pc' = "reading"
    /\ UNCHANGED <<notSim, simMore, pipe, late, overran>>

\* Lines 132-165 with a failure: status running and roast_start, then
\* prepare_working_directory raises (the input or the mask cannot be read),
\* or roast_prepare is published and write_config (build_roast_config
\* rejects the recipe), build_command (no launcher) or Popen raises
SimLaunchFails(where) ==
    /\ sim_pc = "idle"
    /\ roast_status' = "running"
    /\ sim_events' = sim_events \o <<[event |-> "roast_start", progress |-> 2]>>
           \o (IF where = "raised:launch"
               THEN <<[event |-> "roast_prepare", progress |-> 5]>> ELSE <<>>)
    /\ sim_pc' = where
    /\ UNCHANGED <<notSim, simMore, child, pipe, late, overran, last_progress>>

\* The child writes one of its output files
ChildOutput(t) ==
    /\ child = "running"
    /\ t \notin outputs
    /\ outputs' = outputs \cup {t}
    /\ UNCHANGED <<notSim, rjob, sim_pc, child, pipe, late, overran, last_progress, roast_status, sim_events>>

\* The child writes a line
ChildWrite(line) ==
    /\ child = "running"
    /\ Len(pipe) < MaxLines
    /\ pipe' = Append(pipe, line)
    /\ UNCHANGED <<notSim, simMore, sim_pc, child, late, overran, last_progress, roast_status, sim_events>>

\* The child ends by itself
ChildExit(code) ==
    /\ child = "running"
    /\ child' = code
    /\ UNCHANGED <<notSim, simMore, sim_pc, pipe, late, overran, last_progress, roast_status, sim_events>>

\* The wall clock passes the deadline
DeadlinePasses ==
    /\ sim_pc \in {"reading", "wait"}
    /\ ~late
    /\ late' = TRUE
    /\ overran' = (child = "running")
    /\ UNCHANGED <<notSim, simMore, sim_pc, child, pipe, last_progress, roast_status, sim_events>>

\* One iteration of `for line in proc.stdout` (lines 170-187): publish the
\* step of the line if it is new, then look at the clock
SimReadLine ==
    /\ sim_pc = "reading"
    /\ pipe # <<>>
    /\ pipe' = Tail(pipe)
    /\ LET step == STEP_MAP(Head(pipe))
           emits == step # <<>> /\ step[1].progress > last_progress
       IN /\ sim_events' = IF emits THEN Append(sim_events, step[1]) ELSE sim_events
          /\ last_progress' = IF emits THEN step[1].progress ELSE last_progress
    /\ IF late
       THEN /\ child' = IF child = "running" THEN "killed" ELSE child
            /\ sim_pc' = "raised:timeout"
       ELSE UNCHANGED <<child, sim_pc>>
    /\ UNCHANGED <<notSim, simMore, late, overran, roast_status>>

\* The pipe is at end of file: the loop ends without looking at the clock
SimReadEof ==
    /\ sim_pc = "reading"
    /\ pipe = <<>>
    /\ child \in {"exit0", "exit1"}
    /\ sim_pc' = "wait"
    /\ UNCHANGED <<notSim, simMore, child, pipe, late, overran, last_progress, roast_status, sim_events>>

\* collect_outputs (208-222): every expected output file exists
collect_outputs(present) == OutputTypes \subseteq present

\* Lines 189-200: proc.wait(); a non-zero return code raises; otherwise
\* collect_outputs, which raises when an output is missing; then status
\* complete, roast_complete
SimWait ==
    /\ sim_pc = "wait"
    /\ IF child # "exit0"
       THEN /\ sim_pc' = "raised:exit code"
            /\ UNCHANGED <<roast_status, sim_events>>
       ELSE IF ~collect_outputs(outputs)
       THEN /\ sim_pc' = "raised:missing output"
            /\ UNCHANGED <<roast_status, sim_events>>
       ELSE /\ roast_status' = "complete"
            /\ sim_events' = Append(sim_events, [event |-> "roast_complete", progress |-> 100])
            /\ sim_pc' = "complete"
    /\ UNCHANGED <<notSim, simMore, child, pipe, late, overran, last_progress>>

\* Lines 202-206: status error, roast_error with the message, re-raise.
\* Nothing removes the working directory.
SimExcept ==
    /\ sim_pc \in DOMAIN Raised
    /\ roast_status' = "error"
    /\ sim_events' = Append(sim_events,
           [event |-> "roast_error", progress |-> ErrorProgress,
            detail |-> Raised[sim_pc]])
    /\ sim_pc' = "error"
    /\ UNCHANGED <<notSim, simMore, child, pipe, late, overran, last_progress>>

NextTimeout ==
    \/ SimLaunch
    \/ \E t \in OutputTypes : ChildOutput(t)
    \/ \E line \in Lines : ChildWrite(line)
    \/ \E code \in {"exit0", "exit1"} : ChildExit(code)
    \/ DeadlinePasses
    \/ SimReadLine
    \/ SimReadEof
    \/ SimWait
    \/ SimExcept

SpecTimeout == Init /\ [][NextTimeout]_vars

(***************************************************************************)
(* POST /simulate (app.py 215-258).  The body's recipe is built with       *)
(* RecipeAppend; the handler then runs on it.                              *)
(***************************************************************************)
\* `if recipe:` -- None and the empty list skip the validation
Truthy(r) == r # <<>>

\* Lines 217-237: the checks, in the order of the code
SimulateChecks(ids, seg, r) ==
    IF ~ids THEN "400"
    ELSE IF ~seg THEN "404"
    ELSE IF Truthy(r) /\ validate_recipe(r) = "ValueError" THEN "400"
    ELSE "pass"

\* def set_roast_status(session_id, status) (redis_client.py 163) called
\* with nargs positional arguments: more than two is a TypeError
SetRoastStatusBinds(nargs) == nargs <= 2

\* The handler, from the body to the response.  Line 251 calls
\* set_roast_status(session_id, "queued", model_name).
Simulate(ids, seg) ==
    /\ sim_resp = "none"
    /\ verdict = "none"
    /\ sim_req' = [path |-> "/simulate", ids |-> ids, seg |-> seg, recipe |-> recipe]
    /\ IF SimulateChecks(ids, seg, recipe) # "pass"
       THEN /\ sim_resp' = SimulateChecks(ids, seg, recipe)
            /\ UNCHANGED <<roast_job_queue, roast_job_data, roast_job_status, roast_sse>>
       ELSE IF SetRoastStatusBinds(3)
       THEN /\ roast_job_status' = HSet(roast_job_status, StreamSid, "queued")
            /\ roast_job_data' = roast_job_data \cup {StreamSid}
            /\ roast_job_queue' = RPush(roast_job_queue, StreamSid)
            /\ roast_sse' = Append(roast_sse, [event |-> "roast_queued", progress |-> 0])
            /\ sim_resp' = "200"
       ELSE /\ sim_resp' = "500"
            /\ UNCHANGED <<roast_job_queue, roast_job_data, roast_job_status, roast_sse>>
    /\ UNCHANGED notReq

\* The client builds the body before it sends the request
BodyAppend(e) ==
    /\ sim_resp = "none"
    /\ RecipeAppend(e)

NextSimulate ==
    \/ \E e \in Entries : BodyAppend(e)
    \/ \E ids, seg \in BOOLEAN : Simulate(ids, seg)

SpecSimulate == Init /\ [][NextSimulate]_vars

(***************************************************************************)
(* POST /simulate/simnibs (app.py 308-338)                                 *)
(***************************************************************************)
\* Lines 310-322: the checks of the handler; the recipe is read from the
\* body (324) and put into the payload as it is
SimulateSimnibsChecks(ids, seg, r) ==
    IF ~ids THEN "400"
    ELSE IF ~seg THEN "404"
    ELSE "pass"

\* def set_simnibs_status(session_id, status) (redis_client.py 203)
SetSimnibsStatusBinds(nargs) == nargs <= 2

\* The handler.  Line 331 calls set_simnibs_status(session_id, "queued",
\* model_name).
SimulateSimnibs(ids, seg) ==
    /\ sim_resp = "none"
    /\ verdict = "none"
    /\ sim_req' = [path |-> "/simulate/simnibs", ids |-> ids, seg |-> seg, recipe |-> recipe]
    /\ IF SimulateSimnibsChecks(ids, seg, recipe) # "pass"
       THEN /\ sim_resp' = SimulateSimnibsChecks(ids, seg, recipe)
            /\ UNCHANGED nibsVars
       ELSE IF SetSimnibsStatusBinds(3)
       THEN /\ simnibs_job_status' = HSet(simnibs_job_status, StreamSid, "queued")
            /\ simnibs_job_data' = simnibs_job_data \cup {StreamSid}
            /\ simnibs_job_queue' = RPush(simnibs_job_queue, StreamSid)
            /\ simnibs_sse' = Append(simnibs_sse, [event |-> "simnibs_queued", progress |-> 0])
            /\ sim_resp' = "200"
       ELSE /\ sim_resp' = "500"
            /\ UNCHANGED nibsVars
    /\ UNCHANGED <<coreVars, besideHandlers>>
    /\ UNCHANGED <<roast_job_queue, roast_job_data, roast_job_status, roast_sse>>

NextSimulators ==
    \/ \E e \in Entries : BodyAppend(e)
    \/ \E ids, seg \in BOOLEAN : Simulate(ids, seg)
    \/ \E ids, seg \in BOOLEAN : SimulateSimnibs(ids, seg)

SpecSimulators == Init /\ [][NextSimulators]_vars

(***************************************************************************)
(* POST /predict after the enqueue (app.py 156-164): the handler reads the *)
(* queue position and returns it.                                          *)
(***************************************************************************)
NotQueued == -1

\* get_queue_position (redis_client.py 51-64): LRANGE job_queue 0 -1, the
\* index of the first entry of the session, -1 when there is none
get_queue_position(queue, sid) ==
    IF \E i \in 1..Len(queue) : queue[i] = sid
    THEN (CHOOSE i \in 1..Len(queue) :
              /\ queue[i] = sid
              /\ \A k \in 1..(i - 1) : queue[k] # sid) - 1
    ELSE NotQueued

\* Line 157: pos = get_queue_position(session_id)
ReadQueuePosition(j) ==
    /\ reqpc[j] = "done"
    /\ pos[j] = <<>>
    /\ pos' = [pos EXCEPT ![j] = <<get_queue_position(job_queue, j)>>]
    /\ UNCHANGED <<notPred, orch_pc, orch_plan, responses>>

\* Lines 159-164: the response leaves the handler
PredictReturn(j) ==
    /\ pos[j] # <<>>
    /\ responses[j] = <<>>
    /\ responses' = [responses EXCEPT ![j] =
           <<[queue_position |-> pos[j][1], queue |-> job_queue]>>]
    /\ UNCHANGED <<notPred, orch_pc, orch_plan, pos>>

(***************************************************************************)
(* SpecPosition: /predict requests of MaxJobs sessions from their enqueue  *)
(* to their response, with the scheduler loop polling the queue.           *)
(***************************************************************************)
NextPosition ==
    \/ \E j \in Jobs : EnqueueStore(j, OneStepPlan(JobIndex(j)))
    \/ \E j \in Jobs : EnqueueStatus(j)
    \/ \E j \in Jobs : EnqueueEvent(j)
    \/ LoopDequeue(1)
    \/ \E j \in Jobs : ReadQueuePosition(j)
    \/ \E j \in Jobs : PredictReturn(j)

SpecPosition == Init /\ [][NextPosition]_vars

(***************************************************************************)
(* ROASTScheduler (roast_scheduler.py 28-52) for one queued simulation     *)
(* job; SimNIBSScheduler (simnibs_scheduler.py 28-50) has the same shape.  *)
(***************************************************************************)
\* scheduler_loop 46-52: pop_roast_job returns the session, run_job is
\* submitted to the executor
RoastPop ==
    /\ rjob = "queued"
    /\ rjob' = "popped"
    /\ UNCHANGED <<notSim, outputs, sim_pc, child, pipe, late, overran, last_progress, roast_status, sim_events>>

\* run_job 28-37: without a payload, log and return; otherwise publish
\* roast_start and construct the runner (roast_working_dir makes the
\* working directory); 41-44: an exception is logged and the status set
RoastRunJob(has_payload, constructs) ==
    /\ rjob = "popped"
    /\ IF ~has_payload
       THEN /\ rjob' = "returned"
            /\ UNCHANGED <<roast_status, sim_events>>
       ELSE /\ sim_events' = Append(sim_events, [event |-> "roast_start", progress |-> 2])
            /\ IF constructs
               THEN rjob' = "constructed" /\ UNCHANGED roast_status
               ELSE rjob' = "returned" /\ roast_status' = "error"
    /\ UNCHANGED <<notSim, outputs, sim_pc, child, pipe, late, overran, last_progress>>

\* run_job 38: runner.run()
RunnerRun ==
    /\ rjob = "constructed"
    /\ \/ SimLaunch
       \/ \E where \in {"raised:prepare", "raised:launch"} : SimLaunchFails(where)

\* run_job 38-44: run() returned, or raised after its own except block
RoastRunEnds ==
    /\ rjob = "constructed"
    /\ sim_pc \in {"complete", "error"}
    /\ rjob' = "returned"
    /\ roast_status' = IF sim_pc = "error" THEN "error" ELSE roast_status
    /\ UNCHANGED <<notSim, outputs, sim_pc, child, pipe, late, overran, last_progress, sim_events>>

NextSimJob ==
    \/ RoastPop
    \/ \E has_payload, constructs \in BOOLEAN : RoastRunJob(has_payload, constructs)
    \/ RunnerRun
    \/ RoastRunEnds
    \/ \E t \in OutputTypes : ChildOutput(t)
    \/ \E line \in Lines : ChildWrite(line)
    \/ \E code \in {"exit0", "exit1"} : ChildExit(code)
    \/ DeadlinePasses
    \/ SimReadLine
    \/ SimReadEof
    \/ SimWait
    \/ SimExcept

SpecSimJob == Init /\ [][NextSimJob]_vars

(***************************************************************************)
(* The scheduler loops and an unreachable store.  GPUScheduler.            *)
(* scheduler_loop (scheduler.py 169-180) polls with redis_client.lpop;     *)
(* ROASTScheduler and SimNIBSScheduler (46-52, 44-50) poll the same way    *)
(* with pop_roast_job / pop_simnibs_job.  The poll is not inside a try.    *)
(***************************************************************************)
StoreFails ==
    /\ store_up
    /\ store_up' = FALSE
    /\ UNCHANGED <<notPoll, loop_alive>>

StoreRecovers ==
    /\ ~store_up
    /\ store_up' = TRUE
    /\ UNCHANGED <<notPoll, loop_alive>>

\* Lines 172-180 with the store reachable: lpop, start the job's thread
LoopPoll ==
    /\ loop_alive
    /\ store_up
    /\ LoopDequeue(1)

\* Line 172 with the store unreachable: lpop raises ConnectionError, which
\* leaves the while loop and ends the thread that runs scheduler_loop
LoopPollRaises ==
    /\ loop_alive
    /\ ~store_up
    /\ loop_alive' = FALSE
    /\ UNCHANGED <<notPoll, store_up>>

NextOutage ==
    \/ StoreFails
    \/ StoreRecovers
    \/ LoopPoll
    \/ LoopPollRaises
    \/ \E j \in Jobs : store_up /\ JobStart(j)
    \/ \E j \in Jobs : store_up /\ JobSettle(j)
    \/ \E j \in Jobs, m \in Models : store_up /\ StepBegin(j, m)
    \/ \E j \in Jobs, m \in Models : store_up /\ AcquireScan(j, m)
    \/ \E j \in Jobs, m \in Models : store_up /\ AcquireWrite(j, m)
    \/ \E j \in Jobs, m \in Models : store_up /\ SetRunning(j, m)
    \/ \E j \in Jobs, m \in Models : store_up /\ RunnerEmit(j, m)
    \/ \E j \in Jobs, m \in Models : store_up /\ SetComplete(j, m)
    \/ \E j \in Jobs, m \in Models : store_up /\ ReleaseGpu(j, m)

SpecOutage == InitLoop /\ [][NextOutage]_vars

(***************************************************************************)
(* ModelRunner.save_output (runner.py 161-208) and the readers of the      *)
(* canonical output path.  A file is <<space, chunks written>>; it is      *)
(* complete when MaxChunks chunks are written.                             *)
(***************************************************************************)
\* Line 183: nib.save(pred_img, str(out_path)) opens the canonical path for
\* writing, which creates the file (or truncates it) with nothing written
SaveOpen(m) ==
    /\ save_pc[m] = "start"
    /\ out_dir' = [out_dir EXCEPT ![m][Canonical] = <<ModelSpace(m), 0>>]
    /\ save_pc' = [save_pc EXCEPT ![m] = "writing"]
    /\ UNCHANGED <<notOut, seen>>

\* nib.save writes the compressed image to the open file piece by piece
SaveWrite(m) ==
    /\ save_pc[m] = "writing"
    /\ out_dir[m][Canonical][2] < MaxChunks
    /\ out_dir' = [out_dir EXCEPT ![m][Canonical][2] = @ + 1]
    /\ UNCHANGED <<notOut, save_pc, seen>>

\* nib.save returns; line 188: only freesurfer models go on to convert
SaveClose(m) ==
    /\ save_pc[m] = "writing"
    /\ out_dir[m][Canonical][2] = MaxChunks
    /\ save_pc' = [save_pc EXCEPT ![m] =
           IF ModelSpace(m) = "freesurfer" THEN "convert" ELSE "done"]
    /\ UNCHANGED <<notOut, out_dir, seen>>

\* Lines 194-196: convert_to_native writes output_native.nii.gz and
\* returns True, or fails and returns False (204: the FS output is kept)
ConvertToNative(m, ok) ==
    /\ save_pc[m] = "convert"
    /\ IF ok
       THEN /\ out_dir' = [out_dir EXCEPT ![m]["output_native.nii.gz"] = <<"native", MaxChunks>>]
            /\ save_pc' = [save_pc EXCEPT ![m] = "keep fs"]
       ELSE /\ save_pc' = [save_pc EXCEPT ![m] = "done"]
            /\ UNCHANGED out_dir
    /\ UNCHANGED <<notOut, seen>>

\* Line 200: fs_output.rename(output_fs.nii.gz); the canonical name is gone
RenameToFs(m) ==
    /\ save_pc[m] = "keep fs"
    /\ out_dir' = [out_dir EXCEPT ![m]["output_fs.nii.gz"] = out_dir[m][Canonical],
                                  ![m][Canonical] = NoFile]
    /\ save_pc' = [save_pc EXCEPT ![m] = "promote"]
    /\ UNCHANGED <<notOut, seen>>

\* Line 201: native_output.rename(out_path)
PromoteNative(m) ==
    /\ save_pc[m] = "promote"
    /\ out_dir' = [out_dir EXCEPT ![m][Canonical] = out_dir[m]["output_native.nii.gz"],
                                  ![m]["output_native.nii.gz"] = NoFile]
    /\ save_pc' = [save_pc EXCEPT ![m] = "done"]
    /\ UNCHANGED <<notOut, seen>>

\* What a reader finds at a path
Observe(file) ==
    IF file = NoFile THEN "absent"
    ELSE IF file[2] < MaxChunks THEN "partial"
    ELSE "complete"

\* get_result (app.py 181-192): 404 when the path does not exist, else
\* FileResponse sends whatever the file holds
GetResult(m) ==
    /\ seen' = seen \cup {<<m, Observe(out_dir[m][Canonical])>>}
    /\ UNCHANGED <<notOut, out_dir, save_pc>>

NextSave ==
    \/ \E m \in Models : SaveOpen(m)
    \/ \E m \in Models : SaveWrite(m)
    \/ \E m \in Models : SaveClose(m)
    \/ \E m \in Models, ok \in BOOLEAN : ConvertToNative(m, ok)
    \/ \E m \in Models : RenameToFs(m)
    \/ \E m \in Models : PromoteNative(m)
    \/ \E m \in Models : GetResult(m)

SpecSave == Init /\ [][NextSave]_vars

(***************************************************************************)
(* GPUScheduler.acquire_gpu (scheduler.py 56-73) as one call: the body of  *)
(* "with self._gpu_lock", which no other acquire_gpu or release_gpu of the *)
(* scheduler interleaves with.  mem[g] is the outcome of the probe of slot *)
(* g: _gpu_free_memory_mib(g) >= min_free_mib (an unreadable probe counts  *)
(* as enough, line 54).                                                    *)
(***************************************************************************)
RECURSIVE ScanFrom(_, _, _)
\* Variant: the scan without the memory probe of lines 65-68
ScanFromUnprobed(locks, mem, g) ==
    IF g \notin DOMAIN locks THEN NoGpu
    ELSE IF locks[g] # "free" THEN ScanFrom(locks, mem, g + 1)
    ELSE g

\* Lines 61-72: for gpu_id in range(num_gpus), skipping a slot that is not
\* "free" (63-64) or whose probe is below the threshold (65-68)
ScanFrom(locks, mem, g) ==
    IF g \notin DOMAIN locks THEN NoGpu
    ELSE IF locks[g] # "free" THEN ScanFrom(locks, mem, g + 1)
    ELSE IF ~mem[g] THEN ScanFrom(locks, mem, g + 1)
    ELSE g

\* The slot returned (NoGpu for None) and the hash the call leaves
acquire_gpu(locks, mem, tag) ==
    LET g == ScanFrom(locks, mem, 0)
    IN  [ret |-> g,
         locks |-> IF g = NoGpu THEN locks ELSE [locks EXCEPT ![g] = tag]]

\* A step that holds no slot calls acquire_gpu
AcquireCall(j, m, mem) ==
    /\ \A g \in Gpus : gpu_locks[g] # OwnerTag(j, m)
    /\ LET r == acquire_gpu(gpu_locks, mem, OwnerTag(j, m))
       IN /\ gpu_locks' = r.locks
          /\ acq' = <<[tag |-> OwnerTag(j, m), mem |-> mem,
                       before |-> gpu_locks, ret |-> r.ret, after |-> r.locks]>>
    /\ UNCHANGED <<job_queue, job_data, job_status, progress, sse>>
    /\ UNCHANGED <<threadVars, histVars, streamVars, recipeVars, besideAcq>>

\* release_gpu (75-80) of the step that was given slot g
ReleaseCall(g) ==
    /\ gpu_locks[g] # "free"
    /\ gpu_locks' = [gpu_locks EXCEPT ![g] = "free"]
    /\ UNCHANGED <<job_queue, job_data, job_status, progress, sse>>
    /\ UNCHANGED <<threadVars, histVars, streamVars, recipeVars, extVars>>

NextAcquire ==
    \/ \E j \in Jobs, m \in Models :
           \E mem \in [Gpus -> BOOLEAN] : AcquireCall(j, m, mem)
    \/ \E g \in Gpus : ReleaseCall(g)

SpecAcquire == InitSlots /\ [][NextAcquire]_vars

(***************************************************************************)
(* POST /predict up to the enqueue, with the files: the upload (app.py     *)
(* 110-123), InferenceOrchestrator.prepare_inputs (inference.py 39-68) and *)
(* build_model_plan (71-112), one loop iteration at a time.                *)
(***************************************************************************)
\* The model lists and the values of the space field a request can carry
RequestLists ==
    UNION {[1..n -> MODEL_REGISTRY] : n \in 1..MaxSteps}

Spaces == {"native", "freesurfer", "other"}

\* create_session, then the upload is written to session_input_native
PlanRequest(sid, models, space) ==
    /\ plan_pc = "idle"
    /\ fs_dirs' = fs_dirs \cup AncestorsOrSelf(session_path(sid))
    /\ Made(sid, "create_session")
    /\ fs_files' = fs_files \cup {session_input_native(sid).path, log_path(sid)}
    /\ plan_req' = [models |-> models, space |-> space]
    /\ plan_pc' = "uploaded"
    /\ UNCHANGED <<coreVars, besidePlan, last_call, prev_call, steps>>

\* prepare_inputs: "native" returns the native path; "freesurfer" returns
\* the FS path when that file exists, and otherwise the native path: the
\* convert_to_fs call of line 60 is commented out, so nothing is written;
\* any other space raises ValueError
PlanPrepare ==
    /\ plan_pc = "uploaded"
    /\ plan_pc' = IF plan_req.space \in {"native", "freesurfer"}
                  THEN "prepared" ELSE "raised"
    /\ UNCHANGED <<coreVars, besidePlan, pathVars, plan_req, steps>>

\* build_model_plan, lines 84-104: the step of the next model
PlanStep(sid) ==
    /\ plan_pc = "prepared"
    /\ Len(steps) < Len(plan_req.models)
    /\ LET model_name == plan_req.models[Len(steps) + 1]
           cfg == get_model_config(model_name)[1]
       IN  steps' = Append(steps,
               [model |-> model_name,
                input_path |-> IF cfg.space = "native"
                               THEN session_input_native(sid).path
                               ELSE session_input_fs(sid).path])
    /\ UNCHANGED <<coreVars, besidePlan, pathVars, plan_pc, plan_req>>

\* The plan is returned and scheduler.enqueue is called with it
PlanEnqueue ==
    /\ plan_pc = "prepared"
    /\ Len(steps) = Len(plan_req.models)
    /\ plan_pc' = "enqueued"
    /\ UNCHANGED <<coreVars, besidePlan, pathVars, plan_req, steps>>

NextPlan ==
    \/ \E models \in RequestLists, space \in Spaces :
           PlanRequest(StreamSid, models, space)
    \/ PlanPrepare
    \/ PlanStep(StreamSid)
    \/ PlanEnqueue

SpecPlan == Init /\ [][NextPlan]_vars

(***************************************************************************)
(* SimNIBSRunner.run_fem from the start of the solve (simnibs_runner.py    *)
(* 274-304): the solve runs in a thread of its own, the main thread waits  *)
(* on solve_done with a timeout of 10 s and publishes a heartbeat after    *)
(* each timeout.  The wait, the reading of the clock and the publication   *)
(* are separate steps; the solve thread and the clock move between them.   *)
(***************************************************************************)
\* What holds when an event is published: the solve thread has finished,
\* the deadline has passed
FemEvent(event, pct) ==
    [event |-> event, progress |-> pct,
     solve_over |-> solve \in {"finished", "failed"}, late |-> fem_late]

\* Variant: the heartbeat without the ceiling
HeartbeatUncapped(p) == p + 2

\* progress = min(88, progress + 2) (line 297)
Heartbeat(p) == IF p + 2 < 88 THEN p + 2 ELSE 88

\* Lines 234 and 275-293: simnibs_fem_setup 65, simnibs_fem_solve 68, the
\* thread is started, progress = 68, the deadline is set
FemStart ==
    /\ fem_pc = "idle"
    /\ fem_events' = fem_events \o <<FemEvent("simnibs_fem_setup", 65),
                                     FemEvent("simnibs_fem_solve", 68)>>
    /\ solve' = "running"
    /\ fem_progress' = 68
    /\ fem_pc' = "waiting"
    /\ UNCHANGED <<notFem, fem_late>>

\* _solve (281-287): _run_simnibs returns or raises; solve_done is set
SolveEnds(ok) ==
    /\ solve = "running"
    /\ solve' = IF ok THEN "finished" ELSE "failed"
    /\ UNCHANGED <<notFem, fem_pc, fem_late, fem_progress, fem_events>>

\* The clock passes the deadline of line 293 while run_fem is in its loop
FemDeadlinePasses ==
    /\ fem_pc \in {"waiting", "clock", "emit"}
    /\ ~fem_late
    /\ fem_late' = TRUE
    /\ UNCHANGED <<notFem, fem_pc, solve, fem_progress, fem_events>>

\* solve_done.wait(timeout=10) returns False (294): the event is not set
FemWaitTimesOut ==
    /\ fem_pc = "waiting"
    /\ solve = "running"
    /\ Len(fem_events) < MaxTicks + 2
    /\ fem_pc' = "clock"
    /\ UNCHANGED <<notFem, solve, fem_late, fem_progress, fem_events>>

\* `if time.time() > deadline: raise TimeoutError` (295-296); run() catches
\* it and publishes simnibs_error (365-367)
FemClock ==
    /\ fem_pc = "clock"
    /\ IF fem_late
       THEN /\ fem_pc' = "raised"
            /\ fem_events' = Append(fem_events, FemEvent("simnibs_error", ErrorProgress))
       ELSE /\ fem_pc' = "emit"
            /\ UNCHANGED fem_events
    /\ UNCHANGED <<notFem, solve, fem_late, fem_progress>>

\* Lines 297-298: the next heartbeat is published
FemEmit ==
    /\ fem_pc = "emit"
    /\ fem_progress' = Heartbeat(fem_progress)
    /\ fem_events' = Append(fem_events, FemEvent("simnibs_fem_solve", fem_progress'))
    /\ fem_pc' = "waiting"
    /\ UNCHANGED <<notFem, solve, fem_late>>

\* The wait returns True (294): the loop ends; an exception of the solve is
\* raised again (300-301), otherwise simnibs_post 90 is published (303)
FemWaitReturns ==
    /\ fem_pc = "waiting"
    /\ solve \in {"finished", "failed"}
    /\ IF solve = "failed"
       THEN /\ fem_pc' = "raised"
            /\ fem_events' = Append(fem_events, FemEvent("simnibs_error", ErrorProgress))
       ELSE /\ fem_pc' = "done"
            /\ fem_events' = Append(fem_events, FemEvent("simnibs_post", 90))
    /\ UNCHANGED <<notFem, solve, fem_late, fem_progress>>

NextFem ==
    \/ FemStart
    \/ \E ok \in BOOLEAN : SolveEnds(ok)
    \/ FemDeadlinePasses
    \/ FemWaitTimesOut
    \/ FemClock
    \/ FemEmit
    \/ FemWaitReturns

\* One simulation job at a time: a ROAST job (the reading loop of
\* ROASTRunner.run) or the FEM stage of a SimNIBS job
NextProgress ==
    \/ fem_pc = "idle" /\ NextTimeout
    \/ sim_pc = "idle" /\ NextFem

SpecProgress == Init /\ [][NextProgress]_vars

(***************************************************************************)
(* Several ROAST jobs: enqueue_roast_job (redis_client.py 149-151), the    *)
(* scheduler loop and the executor (roast_scheduler.py 23-52), and the     *)
(* runner's working directory (roast_runner.py 42-46, session.py 38-41).   *)
(* A queue entry is the session id; `sent` records beside it the payload   *)
(* of the enqueue that pushed it.                                          *)
(***************************************************************************)
\* The payload of /simulate (app.py 240-249), by the field that tells two
\* jobs of one session apart
JobPayload(model_name) == [model_name |-> model_name]

\* Jobs pushed so far that have not ended
Enqueued ==
    Len(rq) + Len(submitted)
        + Cardinality({w \in DOMAIN workers : workers[w].state # "idle"})

\* set(ROAST_JOB_DATA_PREFIX + session_id, payload); rpush(queue, session_id)
enqueue_roast_job(sid, payload) ==
    /\ Enqueued < MaxEnqueued
    /\ rdata' = [rdata EXCEPT ![sid] = <<payload>>]
    /\ rq' = Append(rq, [sid |-> sid, sent |-> payload])
    /\ UNCHANGED <<notPool, submitted, workers>>

\* scheduler_loop 48-50: pop_roast_job, then submit(run_job, session_id)
RoastSubmit ==
    /\ rq # <<>>
    /\ rq' = Tail(rq)
    /\ submitted' = Append(submitted, Head(rq))
    /\ UNCHANGED <<notPool, rdata, workers>>

\* An idle thread of the executor starts the oldest submitted call.
\* run_job 29-39: the payload is read from roast_job_data:<sid>; the runner
\* is constructed with work_dir = roast_working_dir(session_id) and runs
RoastWorkerStart(w) ==
    /\ workers[w].state = "idle"
    /\ submitted # <<>>
    /\ submitted' = Tail(submitted)
    /\ LET job == Head(submitted)
           payload == rdata[job.sid]
       IN  workers' = [workers EXCEPT ![w] =
               IF payload = <<>>
               THEN [state |-> "idle"]
               ELSE [state |-> "running", sid |-> job.sid, sent |-> job.sent,
                     payload |-> payload[1],
                     work_dir |-> roast_working_dir(job.sid).path]]
    /\ UNCHANGED <<notPool, rq, rdata>>

\* runner.run() returns (the outcome is of no account here)
RoastWorkerEnd(w) ==
    /\ workers[w].state = "running"
    /\ workers' = [workers EXCEPT ![w] = [state |-> "idle"]]
    /\ UNCHANGED <<notPool, rq, rdata, submitted>>

NextPool ==
    \/ \E sid \in Jobs, m \in Models : enqueue_roast_job(sid, JobPayload(m))
    \/ RoastSubmit
    \/ \E w \in DOMAIN workers : RoastWorkerStart(w)
    \/ \E w \in DOMAIN workers : RoastWorkerEnd(w)

SpecPool == Init /\ [][NextPool]_vars

(***************************************************************************)
(* Several stream requests for one session (app.py 170-175, 298-301): each *)
(* runs a generator sse_stream(session_id) of its own on the one list      *)
(* sse:<sid> (sse.py 54-105).  An event carries in `n` its place among the *)
(* events published to the session.                                        *)
(***************************************************************************)
\* push_event by a scheduler or runner of the session
ReaderPublish(sid, tag) ==
    /\ Len(published[sid]) < MaxEvents
    /\ LET event == [event |-> tag, n |-> Len(published[sid]) + 1]
       IN  /\ sse' = push_event(sse, sid, event)
           /\ published' = Record(published, sid, event)
    /\ UNCHANGED <<job_queue, job_data, gpu_locks, job_status, progress>>
    /\ UNCHANGED <<threadVars, progress_log, runs, dequeuedBy, releases>>
    /\ UNCHANGED <<streamVars, recipeVars, extVars>>

\* The endpoint calls sse_stream; a call with terminate_on does not bind
ReaderOpen(r, kind) ==
    /\ rd_pc[r] = "closed"
    /\ rd_pc' = [rd_pc EXCEPT ![r] = IF CallBinds(kind) THEN "open" ELSE "crashed"]
    /\ UNCHANGED <<coreVars, notReaders, rd_emitted>>

\* blpop returned a packet (70, 82-100): the envelope is taken off the
\* list and yielded; a terminal tag ends the loop
ReaderRelay(r, sid) ==
    /\ rd_pc[r] = "open"
    /\ sse[sid] # <<>>
    /\ LET envelope == LPopValue(sse[sid]) IN
         /\ sse' = [sse EXCEPT ![sid] = LPopRest(@)]
         /\ rd_emitted' = [rd_emitted EXCEPT ![r] = Append(@, envelope)]
         /\ rd_pc' = [rd_pc EXCEPT ![r] =
                         IF envelope.event.event \in DefaultTerminal
                         THEN "closing" ELSE "open"]
    /\ UNCHANGED <<job_queue, job_data, gpu_locks, job_status, progress>>
    /\ UNCHANGED <<threadVars, histVars, streamVars, recipeVars, besideReaders>>

\* Lines 102-105: stream_end, the generator returns
ReaderEnd(r) ==
    /\ rd_pc[r] = "closing"
    /\ rd_emitted' = [rd_emitted EXCEPT ![r] =
                         Append(@, Envelope([event |-> "stream_end", n |-> 0]))]
    /\ rd_pc' = [rd_pc EXCEPT ![r] = "ended"]
    /\ UNCHANGED <<coreVars, notReaders>>

NextReaders ==
    \/ \E tag \in StreamTags : ReaderPublish(StreamSid, tag)
    \/ \E r \in 1..NumReaders, kind \in StreamKinds : ReaderOpen(r, kind)
    \/ \E r \in 1..NumReaders : ReaderRelay(r, StreamSid)
    \/ \E r \in 1..NumReaders : ReaderEnd(r)

SpecReaders == Init /\ [][NextReaders]_vars

(***************************************************************************)
(* The wait for a slot over a stream of jobs (scheduler.py 88-113).  A     *)
(* step thread is named by a session and a model; when it has released its *)
(* slot the name stands for a step of a job dequeued later.  acquire_gpu   *)
(* is one step (it runs under _gpu_lock); every probe finds enough memory. *)
(* A thread that finds no slot sleeps 0.2 s and calls again: nothing       *)
(* records who has waited longest.                                         *)
(***************************************************************************)
EnoughMemory == [g \in DOMAIN gpu_locks |-> TRUE]

\* Line 88: a pool worker of a dequeued job starts the step
WaitBegin(j, m) ==
    /\ wait_pc[<<j, m>>] = "idle"
    /\ wait_pc' = [wait_pc EXCEPT ![<<j, m>>] = "waiting"]
    /\ UNCHANGED <<coreVars, notWait>>

\* Lines 92-94: one call of acquire_gpu
WaitPoll(j, m) ==
    /\ wait_pc[<<j, m>>] = "waiting"
    /\ LET r == acquire_gpu(gpu_locks, EnoughMemory, OwnerTag(j, m))
       IN  /\ gpu_locks' = r.locks
           /\ wait_pc' = [wait_pc EXCEPT ![<<j, m>>] =
                              IF r.ret = NoGpu THEN "sleeping" ELSE "running"]
    /\ UNCHANGED <<job_queue, job_data, job_status, progress, sse>>
    /\ UNCHANGED <<threadVars, histVars, streamVars, recipeVars, besideWait>>

\* Line 95: time.sleep(0.2) is over
WaitWake(j, m) ==
    /\ wait_pc[<<j, m>>] = "sleeping"
    /\ wait_pc' = [wait_pc EXCEPT ![<<j, m>>] = "waiting"]
    /\ UNCHANGED <<coreVars, notWait>>

\* Lines 97-111: the runner's run ends, by return or by exception
WaitRunEnds(j, m) ==
    /\ wait_pc[<<j, m>>] = "running"
    /\ wait_pc' = [wait_pc EXCEPT ![<<j, m>>] = "settled"]
    /\ UNCHANGED <<coreVars, notWait>>

\* Lines 112-113: release_gpu in the finally clause
WaitRelease(j, m) ==
    /\ wait_pc[<<j, m>>] = "settled"
    /\ gpu_locks' = [g \in DOMAIN gpu_locks |->
                         IF gpu_locks[g] = OwnerTag(j, m) THEN "free" ELSE gpu_locks[g]]
    /\ wait_pc' = [wait_pc EXCEPT ![<<j, m>>] = "idle"]
    /\ UNCHANGED <<job_queue, job_data, job_status, progress, sse>>
    /\ UNCHANGED <<threadVars, histVars, streamVars, recipeVars, besideWait>>

NextWait ==
    \/ \E j \in Jobs, m \in Models : WaitBegin(j, m)
    \/ \E j \in Jobs, m \in Models : WaitPoll(j, m)
    \/ \E j \in Jobs, m \in Models : WaitWake(j, m)
    \/ \E j \in Jobs, m \in Models : WaitRunEnds(j, m)
    \/ \E j \in Jobs, m \in Models : WaitRelease(j, m)

\* Every started thread goes on running and every run of a runner ends;
\* whether and when a further job arrives is left open
SpecWait ==
    /\ Init
    /\ [][NextWait]_vars
    /\ \A j \in Jobs, m \in Models :
          /\ WF_vars(WaitPoll(j, m))
          /\ WF_vars(WaitWake(j, m))
          /\ WF_vars(WaitRunEnds(j, m))
          /\ WF_vars(WaitRelease(j, m))

(***************************************************************************)
(* Properties.                                                             *)
(***************************************************************************)
\* gpu_locks records the task as the owner of the slot in its local gpu_id
Owns(j, m) ==
    /\ gpu_id[j][m] \in Gpus
    /\ gpu_locks[gpu_id[j][m]] = OwnerTag(j, m)

StatusOf(j, m) ==
    IF StatusKey(j, m) \in DOMAIN job_status THEN job_status[StatusKey(j, m)] ELSE "absent"

NonDecreasing(s) == \A i \in 1..(Len(s) - 1) : s[i] <= s[i + 1]

IsPrefix(a, b) == Len(a) <= Len(b) /\ \A i \in 1..Len(a) : a[i] = b[i]

Count(q, x) == Len(SelectSeq(q, LAMBDA y : y = x))

\* C1: whatever the interleaving of acquire_gpu and release_gpu calls of
\* concurrent steps, a step between the return of acquire_gpu and its
\* release_gpu is the recorded owner of its slot, and no two distinct steps
\* hold the same slot id at the same time.
C1_SlotMutualExclusion ==
    /\ \A j \in Jobs, m \in Models : Holding(j, m) => Owns(j, m)
    /\ \A j1, j2 \in Jobs, m1, m2 \in Models :
          (Holding(j1, m1) /\ Holding(j2, m2) /\ (j1 # j2 \/ m1 # m2))
              => gpu_id[j1][m1] # gpu_id[j2][m2]

\* Two steps hold slots at the same time
C1_TwoStepsHoldSlots ==
    \E j1, j2 \in Jobs, m1, m2 \in Models :
        /\ j1 # j2 \/ m1 # m2
        /\ Holding(j1, m1) /\ Holding(j2, m2)

\* C2 (as stated): a step that has ended after acquire_gpu returned a slot
\* has called release_gpu exactly once and no longer owns the slot, on
\* every exit path, a failed status or event write included.
C2_SlotReleasedOnEveryExit ==
    \A j \in Jobs, m \in Models :
        /\ releases[j][m] <= 1
        /\ (pc[j][m] = "done" /\ gpu_id[j][m] # NoGpu)
              => (releases[j][m] = 1 /\ ~Owns(j, m))

\* C3: a step whose ModelRunner executes owns its slot, and the status
\* "running" is found only on a step that acquire_gpu has given a slot
\* which it still owns (the later status writes of the step succeed, so
\* "running" is replaced before the slot is released).
C3_RunningOwnsSlot ==
    \A j \in Jobs, m \in Models :
        /\ pc[j][m] = "running" => Owns(j, m)
        /\ StatusOf(j, m) = "running" => (Holding(j, m) /\ Owns(j, m))

\* A step runs with status "running" while another step waits for a slot
C3_RunningWhileOtherWaits ==
    \E j1, j2 \in Jobs, m1, m2 \in Models :
        /\ pc[j1][m1] = "running" /\ StatusOf(j1, m1) = "running" /\ stage[j1][m1] > 0
        /\ pc[j2][m2] = "waiting"

\* C4: with several scheduler loops on the same queue, every enqueued job
\* is either still in job_queue once or was popped once: it is never run
\* twice, never popped by two loops, and never lost.
C4_DequeuedExactlyOnce ==
    \A j \in Jobs :
        /\ runs[j] <= 1
        /\ Cardinality(dequeuedBy[j]) <= 1
        /\ Count(job_queue, j) + runs[j] = (IF reqpc[j] = "idle" THEN 0 ELSE 1)

\* Two jobs were popped, by two different loops
C4_TwoLoopsTwoJobs ==
    \E j1, j2 \in Jobs :
        /\ j1 # j2
        /\ dequeuedBy[j1] = {1} /\ dequeuedBy[j2] = {2}
        /\ runs[j1] = 1 /\ runs[j2] = 1

\* The envelopes the stream relayed from the list, as events
Relayed == SelectSeq(emitted, LAMBDA e : e.event.event \notin {"heartbeat", "stream_end"})

RelayedEvents == [i \in 1..Len(Relayed) |-> Relayed[i].event]

\* The published events that were not deleted with their key
RECURSIVE Retained(_, _)
Retained(p, k) ==
    IF k = 0 THEN <<>>
    ELSE IF k \in expired THEN Retained(p, k - 1)
    ELSE Append(Retained(p, k - 1), p[k])

\* C5 (as stated): the relayed envelopes are, in order, a prefix of the
\* events published for the session.
C5_RelayedIsPrefixOfPublished ==
    IsPrefix(RelayedEvents, published[StreamSid])

\* C5 (amended): the relayed envelopes are, in order, a prefix of the
\* published events that the one-hour expiry of the list did not delete.
C5_RelayedIsPrefixOfRetained ==
    IsPrefix(RelayedEvents, Retained(published[StreamSid], Len(published[StreamSid])))

\* The stream relayed an event published after an unread one had expired
C5_RelayedAfterExpiry ==
    /\ expired # {}
    /\ RelayedEvents # <<>>
    /\ \E i \in 1..Len(published[StreamSid]) :
          /\ i \notin expired
          /\ \E k \in expired : k < i
          /\ published[StreamSid][i] = RelayedEvents[Len(RelayedEvents)]
          /\ published[StreamSid][1] # RelayedEvents[1]

\* C6 (as stated): every envelope the stream emitted carries the HMAC of
\* its event; an envelope of the list whose sig does not verify is dropped.
C6_EmittedSignaturesVerify ==
    \A i \in 1..Len(emitted) : IsSigned(emitted[i])

\* Progress values of the events of step (j, m) other than model_error
StepEvents(j, m) ==
    SelectSeq(published[j], LAMBDA e : "model" \in DOMAIN e /\ e.model = m
                                       /\ "progress" \in DOMAIN e)

NonErrorProgress(j, m) ==
    LET evs == SelectSeq(StepEvents(j, m), LAMBDA e : e.event # "model_error")
    IN [i \in 1..Len(evs) |-> evs[i].progress]

OnlyErrorCarriesMinusOne(j, m) ==
    \A i \in 1..Len(StepEvents(j, m)) :
        StepEvents(j, m)[i].progress = ErrorProgress
            <=> StepEvents(j, m)[i].event = "model_error"

BeforeError(log) ==
    IF log # <<>> /\ log[Len(log)] = ErrorProgress
    THEN SubSeq(log, 1, Len(log) - 1) ELSE log

IsTerminal(e) == e.event \in {"job_complete", "job_failed"}

TerminalAt(j) == {i \in 1..Len(published[j]) : IsTerminal(published[j][i])}

StepTerminalBefore(j, m, t) ==
    \E i \in 1..(t - 1) :
        /\ published[j][i].event \in {"model_complete", "model_error"}
        /\ published[j][i].model = m

\* C8: with the store's commands succeeding, a job publishes at most one
\* terminal event, exactly one once run_job has finished on its payload;
\* when it is published every step of the plan has
\* ended, has published its model_complete or model_error earlier and has
\* released its slot; it is job_failed exactly when some step failed.
C8_OneTerminalAfterAllSteps ==
    \A j \in Jobs :
        /\ Cardinality(TerminalAt(j)) <= 1
        /\ (jobpc[j] = "done" /\ j \in DOMAIN job_data) => Cardinality(TerminalAt(j)) = 1
        /\ \A t \in TerminalAt(j) :
              /\ \A m \in StepsOf(j) :
                    /\ pc[j][m] = "done"
                    /\ releases[j][m] = 1
                    /\ ~Owns(j, m)
                    /\ StepTerminalBefore(j, m, t)
              /\ published[j][t].event = "job_failed"
                    <=> (\E m \in StepsOf(j) : result[j][m] # "ok")

\* A job with one successful and one failed step published job_failed
C8_MixedOutcomeFailed ==
    \E j \in Jobs :
        /\ \E t \in TerminalAt(j) : published[j][t].event = "job_failed"
        /\ \E m1, m2 \in StepsOf(j) : result[j][m1] = "ok" /\ result[j][m2] = "failed"

\* C9 (as stated): the stream of each endpoint stops at the first emitted
\* event whose tag is in the endpoint's terminal set, emits stream_end as
\* its next and last envelope, and never ends before a terminal event.
C9_StopsAtTerminalTag ==
    /\ \A i \in 1..Len(emitted) :
          emitted[i].event.event \in TerminateOn(stream_kind)
              => /\ Len(emitted) <= i + 1
                 /\ Len(emitted) = i + 1 => emitted[i + 1].event.event = "stream_end"
    /\ stream_pc \in {"ended", "crashed"}
          => /\ Len(emitted) >= 2
             /\ emitted[Len(emitted) - 1].event.event \in TerminateOn(stream_kind)
             /\ emitted[Len(emitted)].event.event = "stream_end"

\* Sum of the currents when all of them are finite
FiniteSum(r) == FSum(Currents(r), Len(Currents(r))).v

Abs(x) == IF x < 0 THEN -x ELSE x

\* C10 (as stated): validate_recipe accepts exactly the sequences of even
\* length whose currents are all finite numbers with |sum| strictly below
\* the tolerance; every other sequence raises ValueError.
C10_AcceptsIffBalanced ==
    verdict # "none" =>
        (verdict = "accepted"
            <=> /\ Len(recipe) % 2 = 0
                /\ \A i \in 1..Len(Currents(recipe)) : Currents(recipe)[i].kind = "num"
                /\ Abs(FiniteSum(recipe)) < Tolerance)

\* C11 (as stated): the sweep removes only session directories whose mtime
\* is older than now minus the maximum age, and never the directory of a
\* session that has a queued or running job.
C11_ReapsOnlyOldIdleSessions ==
    \A r \in reaped : r.mtime < r.cutoff /\ ~r.serving

SameCall(c, d) == c.fn = d.fn /\ c.sid = d.sid /\ c.arg = d.arg

\* C12 (as stated): a path function called twice with the same arguments
\* returns the same path, whatever happened to the file system in between;
\* it creates no file, and every directory it creates is a parent directory
\* (a proper ancestor) of the path it returns.
C12_CreatesOnlyParents ==
    /\ last_call.fn # "none" /\ SameCall(last_call, prev_call)
           => last_call.ret = prev_call.ret
    /\ last_call.files_made = {}
    /\ last_call.dirs_made \subseteq Ancestors(last_call.ret)

\* C12 (amended): as above, but the directories created are those on the
\* returned path: its ancestors or, for roast_working_dir, which returns a
\* directory, the returned path itself.
C12_CreatesOnlyDirsOnPath ==
    /\ last_call.fn # "none" /\ SameCall(last_call, prev_call)
           => last_call.ret = prev_call.ret
    /\ last_call.files_made = {}
    /\ last_call.dirs_made \subseteq AncestorsOrSelf(last_call.ret)
    /\ last_call.fn # "roast_working_dir"
           => last_call.dirs_made \subseteq Ancestors(last_call.ret)

\* C12 witness: model_output_path called a second time with the same
\* arguments after the session was removed in between, creating the session
\* and model directories again, while a file exists.
C12_SecondCallRecreates ==
    /\ last_call.fn = "model_output_path"
    /\ SameCall(last_call, prev_call)
    /\ Cardinality(last_call.dirs_made) = 2
    /\ fs_files # {}

Tags(events) == [i \in 1..Len(events) |-> events[i].event]

\* The tags the stream of a one-model job is to carry, up to the terminal
ExpectedTags(m) ==
    <<"queued", "job_start">> \o Tags(EmitSeq(m)) \o <<"job_complete">>

\* C13 (as stated): for a request with one model whose step does not fail,
\* the events published for the session are, at every moment, the first
\* events of queued, job_start, model_load_start, ..., model_complete,
\* job_complete: nothing comes before 'queued', and 'queued' comes before
\* 'job_start' under every interleaving of the handler with the scheduler.
C13_ExactTagSequence ==
    LET plan == orch_plan[StreamSid]
        tags == Tags(published[StreamSid])
    IN  /\ Len(plan) = 1
        /\ \A i \in 1..Len(tags) : tags[i] \notin {"model_error", "job_failed"}
        => IsPrefix(tags, ExpectedTags(plan[1]))

\* Event i of the session is the event `tag` of model m
StepEventAt(j, i, m, tag) ==
    /\ published[j][i].event = tag
    /\ published[j][i].model = m

PublishedBefore(j, t, m, tag) == \E i \in 1..(t - 1) : StepEventAt(j, i, m, tag)

\* C14: with one accelerator, for a job whose enqueue has returned: a step
\* that waits for the slot has status waiting_gpu, which it wrote before it
\* runs; at most one step of the job is past its start and not yet ended (the
\* steps run one after the other); job_complete comes after the
\* model_complete of every step; and between two inference_start events of
\* different models lies the inference_mid or the model_error of the first.
C14_StepsSerialOnOneSlot ==
    LET j == StreamSid
        ev == published[j]
    IN  /\ Cardinality(Gpus) = 1
        /\ \A m \in StepsOf(j) :
              pc[j][m] \in {"waiting", "locked", "acquired"}
                  => StatusOf(j, m) = "waiting_gpu"
        /\ Cardinality(Active(j)) <= 1
        /\ \A t \in 1..Len(ev) :
              ev[t].event = "job_complete"
                  => \A m \in StepsOf(j) : PublishedBefore(j, t, m, "model_complete")
        /\ \A i, k \in 1..Len(ev) :
              (/\ i < k
               /\ ev[i].event = "inference_start"
               /\ ev[k].event = "inference_start"
               /\ ev[i].model # ev[k].model)
                  => \E t \in (i + 1)..(k - 1) :
                        /\ ev[t].event \in {"inference_mid", "model_error"}
                        /\ ev[t].model = ev[i].model

\* C14 witness: one accelerator, two models, both ran and the job completed
C14_TwoStepsCompleted ==
    /\ Cardinality(Gpus) = 1
    /\ Len(PlanOf(StreamSid)) = 2
    /\ \E t \in 1..Len(published[StreamSid]) :
          published[StreamSid][t].event = "job_complete"

FailedSteps(j) == {m \in StepsOf(j) : result[j][m] = "failed"}

\* C15: when run_job has ended, every step of the plan has run to its own
\* outcome, whatever the outcome of the others: a step that did not fail
\* published model_complete and has status complete, a failed step
\* published model_error and has status error, and the terminal event is
\* job_failed naming exactly the failed models, each once, when there is
\* one, job_complete otherwise.
C15_FailureLeavesOtherSteps ==
    LET j == StreamSid IN
    jobpc[j] = "done" =>
        /\ \A m \in StepsOf(j) :
              /\ pc[j][m] = "done"
              /\ result[j][m] \in {"ok", "failed"}
              /\ result[j][m] = "ok"
                    => /\ StatusOf(j, m) = "complete"
                       /\ PublishedBefore(j, Len(published[j]), m, "model_complete")
                       /\ ~PublishedBefore(j, Len(published[j]), m, "model_error")
              /\ result[j][m] = "failed"
                    => /\ StatusOf(j, m) = "error"
                       /\ PublishedBefore(j, Len(published[j]), m, "model_error")
                       /\ ~PublishedBefore(j, Len(published[j]), m, "model_complete")
        /\ LET last == published[j][Len(published[j])] IN
              IF FailedSteps(j) = {}
              THEN last.event = "job_complete"
              ELSE /\ last.event = "job_failed"
                   /\ SeqRange(last.error) = FailedSteps(j)
                   /\ Len(last.error) = Cardinality(FailedSteps(j))

\* C15 witness: the first step of the plan failed, the second one completed
\* after it, and the job ended with job_failed
C15_SecondStepSurvives ==
    LET j == StreamSid IN
    /\ jobpc[j] = "done"
    /\ Len(PlanOf(j)) = 2
    /\ result[j][PlanOf(j)[1]] = "failed"
    /\ result[j][PlanOf(j)[2]] = "ok"
    /\ \E i, k \in 1..Len(published[j]) :
          /\ i < k
          /\ StepEventAt(j, i, PlanOf(j)[1], "model_error")
          /\ StepEventAt(j, k, PlanOf(j)[2], "model_load_start")

CountStepEvents(j, m, tag) ==
    Cardinality({i \in 1..Len(published[j]) : StepEventAt(j, i, m, tag)})

C17_OverrunEndsInTimeoutError ==
    /\ overran => sim_pc # "complete"
    /\ (overran /\ sim_pc = "error")
          => /\ child = "killed"
             /\ roast_status = "error"
             /\ sim_events[Len(sim_events)].event = "roast_error"
             /\ sim_events[Len(sim_events)].detail = "timeout"

NothingQueued ==
    /\ roast_job_queue = <<>>
    /\ roast_job_data = {}
    /\ roast_job_status = EmptyHash
    /\ roast_sse = <<>>

\* Odd length, a current that is not a number, or finite currents whose sum
\* is off zero by more than the tolerance
UnbalancedRecipe(r) ==
    \/ Len(r) % 2 # 0
    \/ \E i \in 1..Len(Currents(r)) : Currents(r)[i].kind = "str"
    \/ /\ \A i \in 1..Len(Currents(r)) : Currents(r)[i].kind = "num"
       /\ Abs(FiniteSum(r)) > Tolerance

BalancedRecipe(r) ==
    /\ Len(r) % 2 = 0
    /\ \A i \in 1..Len(Currents(r)) : Currents(r)[i].kind = "num"
    /\ Abs(FiniteSum(r)) < Tolerance

\* C18 (as stated): a /simulate request for an existing segmentation with
\* an unbalanced recipe is answered 400, one for a missing segmentation 404,
\* and in both cases no queue entry, payload, status or event is written; a
\* request with a balanced recipe and an existing segmentation is queued:
\* exactly one queue entry and status 'queued'.
C18_RejectsOrQueuesOnce ==
    (sim_resp # "none" /\ sim_req.ids) =>
        /\ (sim_req.seg /\ UnbalancedRecipe(sim_req.recipe))
              => (sim_resp = "400" /\ NothingQueued)
        /\ ~sim_req.seg => (sim_resp = "404" /\ NothingQueued)
        /\ (sim_req.seg /\ BalancedRecipe(sim_req.recipe))
              => /\ sim_resp = "200"
                 /\ roast_job_queue = <<StreamSid>>
                 /\ StreamSid \in DOMAIN roast_job_status
                 /\ roast_job_status[StreamSid] = "queued"

\* C19 (as stated): the queue_position of a /predict response is the index
\* of the session's job in job_queue when the response is returned, and 0
\* when no other job is ahead of it then, whatever the scheduler loop did
\* in the meantime.
C19_PositionIsIndexAtReturn ==
    \A j \in Jobs :
        responses[j] # <<>> =>
            LET r == responses[j][1]
                at == {i \in 1..Len(r.queue) : r.queue[i] = j}
            IN  /\ \A i \in at : r.queue_position = i - 1
                /\ (\A i \in at : i = 1) => r.queue_position = 0

Started(j) == jobpc[j] \in {"pool", "done"}

\* C20: every job in the queue is eventually dequeued and its run_job
\* started, even when the steps of the jobs dequeued before it never
\* finish: the loop does not wait for a running job.
C20_LaterJobsStart == <>(\A j \in Jobs : Started(j))

\* C20 witness: the last job of the queue was started while the step of the
\* first job has a slot and has not ended
C20_StartedBehindRunningJob ==
    /\ Started(SessionIds[MaxJobs])
    /\ \E m \in StepsOf(SessionIds[1]) : pc[SessionIds[1]][m] = "running"
    /\ jobpc[SessionIds[1]] = "pool"

(***************************************************************************)
(* C21: roast_complete is published, and the status set to complete, only  *)
(* after the child exited with return code 0 and every expected output     *)
(* file was verified; and no roast_error follows a roast_complete of the   *)
(* same job.                                                                *)
(***************************************************************************)
EventIndexes(name) == {i \in DOMAIN sim_events : sim_events[i].event = name}

C21_CompleteOnlyAfterVerifiedExit ==
    /\ (EventIndexes("roast_complete") # {} \/ roast_status = "complete")
          => (child = "exit0" /\ collect_outputs(outputs))
    /\ \A i \in EventIndexes("roast_complete") :
          \A k \in EventIndexes("roast_error") : k < i

(***************************************************************************)
(* C22: a dequeued simulation job whose run_job has returned left an       *)
(* outcome the client can see: roast_error with a detail as the last       *)
(* event and status error, or roast_complete and status complete.          *)
(***************************************************************************)
LastEvent == sim_events[Len(sim_events)]

C22_ReturnedJobHasVisibleOutcome ==
    rjob = "returned" =>
        \/ /\ roast_status = "error"
           /\ sim_events # <<>>
           /\ LastEvent.event = "roast_error"
           /\ LastEvent.detail # ""
        \/ /\ roast_status = "complete"
           /\ sim_events # <<>>
           /\ LastEvent.event = "roast_complete"

(***************************************************************************)
(* C23: a push_event that raised does not fail its caller: the step whose  *)
(* runner could not publish an event still ends as a completed step with   *)
(* its slot released, and the job whose job_start could not be published   *)
(* still runs and settles.                                                  *)
(***************************************************************************)
C23_PushFailureNeverFailsCaller ==
    \A j \in Jobs :
        /\ \A m \in Models :
              (<<j, m>> \in push_failed /\ pc[j][m] = "done")
                 => /\ result[j][m] = "ok"
                    /\ job_status[j][m] = "complete"
                    /\ ~Owns(j, m)
        /\ <<j, "job">> \in push_failed => jobpc[j] # "raised"

(***************************************************************************)
(* C24: a poll that finds the store unreachable does not end the scheduler *)
(* loop: the loop is still running afterwards, so that once the store is   *)
(* reachable again a queued job is dequeued.                               *)
(***************************************************************************)
C24_LoopSurvivesOutage ==
    /\ loop_alive
    /\ (store_up /\ job_queue # <<>>) => ENABLED LoopPoll

(***************************************************************************)
(* C25: a reader of a model's canonical output path finds the file absent  *)
(* or completely written, never partially written, at every point of       *)
(* save_output.                                                            *)
(***************************************************************************)
C25_ReaderNeverSeesPartial ==
    \A m \in Models : <<m, "partial">> \notin seen

(***************************************************************************)
(* C26: the session directory is made by create_session and by nothing     *)
(* else, once: no path function and no log write makes it, before          *)
(* create_session or after the sweep removed it.                           *)
(***************************************************************************)
C26_OnlyCreateSessionMakesDir ==
    mkdirs \in {<<>>, <<"create_session">>}

(***************************************************************************)
(* C27: every stored status is one of queued, waiting_gpu, running,        *)
(* complete, error, and every stored progress is an integer from 0 to 100. *)
(***************************************************************************)
StatusTags == {"queued", "waiting_gpu", "running", "complete", "error"}

C27_StatusAndProgressInRange ==
    /\ \A k \in DOMAIN job_status : job_status[k] \in StatusTags
    /\ \A k \in DOMAIN progress : progress[k] \in 0..100

(***************************************************************************)
(* C28: a /predict request that names a model the registry does not have   *)
(* fails in the orchestrator before anything is enqueued: the session has  *)
(* no entry in job_queue, no job_data payload, no status 'queued' and no   *)
(* 'queued' event.                                                         *)
(***************************************************************************)
NamesUnknown(j) == ~(SeqRange(orch_plan[j]) \subseteq MODEL_REGISTRY)

C28_UnknownModelNothingEnqueued ==
    \A j \in Jobs :
        NamesUnknown(j) =>
            /\ j \notin SeqRange(job_queue)
            /\ j \notin DOMAIN job_data
            /\ \A k \in DOMAIN job_status : k[1] = j => job_status[k] # "queued"
            /\ \A i \in DOMAIN published[j] : published[j][i].event # "queued"
            /\ sse[j] = <<Envelope([event |-> "orchestrator_start"])>>

\* C28 witness: the request named a registered model and then an unknown
\* one; build_model_plan prepared the first and raised at the second.
C28_RaisedAfterPreparingOne ==
    /\ orch_pc[StreamSid] = "raised"
    /\ Len(orch_plan[StreamSid]) = 2
    /\ StatusKey(StreamSid, orch_plan[StreamSid][1]) \in DOMAIN job_status

(***************************************************************************)
(* C29: POST /simulate and POST /simulate/simnibs answer 400, with nothing *)
(* enqueued, to a request for an existing segmentation whose recipe is not *)
(* an even-length sequence with numeric currents summing to zero within    *)
(* the tolerance; so every enqueued simulation job carries such a recipe   *)
(* or none.                                                                *)
(***************************************************************************)
NothingQueuedForSimnibs ==
    /\ simnibs_job_queue = <<>>
    /\ simnibs_job_data = {}
    /\ simnibs_job_status = EmptyHash
    /\ simnibs_sse = <<>>

C29_BothEndpointsRejectBadRecipes ==
    /\ (sim_resp # "none" /\ sim_req.ids /\ sim_req.seg
           /\ Truthy(sim_req.recipe) /\ ~BalancedRecipe(sim_req.recipe))
          => (sim_resp = "400" /\ NothingQueued /\ NothingQueuedForSimnibs)
    /\ (roast_job_queue # <<>> \/ simnibs_job_queue # <<>>)
          => (~Truthy(sim_req.recipe) \/ BalancedRecipe(sim_req.recipe))

(***************************************************************************)
(* C30: a slot of gpu_locks holds 'free' or the tag of a step that holds   *)
(* it; it goes from free to owned only in the acquire_gpu of the step      *)
(* whose tag is written, and from owned to free only in the release_gpu of *)
(* the step that owns it; nothing else changes a slot.                     *)
(***************************************************************************)
SlotHeldByOwner(g) ==
    \/ gpu_locks[g] = "free"
    \/ \E j \in Jobs, m \in Models :
          gpu_locks[g] = OwnerTag(j, m) /\ Holding(j, m) /\ gpu_id[j][m] = g

SlotStep(g) ==
    \/ gpu_locks'[g] = gpu_locks[g]
    \/ \E j \in Jobs, m \in Models :
          /\ gpu_locks[g] = "free"
          /\ gpu_locks'[g] = OwnerTag(j, m)
          /\ pc[j][m] = "locked" /\ pc'[j][m] = "acquired" /\ gpu_id[j][m] = g
    \/ \E j \in Jobs, m \in Models :
          /\ gpu_locks[g] = OwnerTag(j, m)
          /\ gpu_locks'[g] = "free"
          /\ pc[j][m] = "finally" /\ pc'[j][m] = "done" /\ gpu_id[j][m] = g

C30_SlotsChangeOnlyByOwner ==
    /\ [](\A g \in DOMAIN gpu_locks : SlotHeldByOwner(g))
    /\ [][\A g \in DOMAIN gpu_locks : SlotStep(g)]_vars

(***************************************************************************)
(* C31: acquire_gpu grants the lowest-numbered slot that is 'free' and     *)
(* whose probed free memory is not below the threshold; a free slot below  *)
(* the threshold is never granted; when no slot qualifies it returns None  *)
(* and leaves gpu_locks unchanged; a successful call changes exactly the   *)
(* granted slot.                                                           *)
(***************************************************************************)
C31_GrantsLowestQualifyingSlot ==
    acq # <<>> =>
        LET c == acq[1]
            ok == {g \in DOMAIN c.before : c.before[g] = "free" /\ c.mem[g]}
        IN  /\ ok = {} => (c.ret = NoGpu /\ c.after = c.before)
            /\ ok # {} =>
                  /\ c.ret \in ok
                  /\ \A g \in ok : c.ret <= g
                  /\ c.after[c.ret] = c.tag
                  /\ \A g \in DOMAIN c.before : g # c.ret => c.after[g] = c.before[g]

\* C31 witness: slot 0 is free but its probe is below the threshold, and
\* the call grants slot 1.
C31_SkipsLowMemorySlot ==
    /\ acq # <<>>
    /\ 1 \in DOMAIN acq[1].before
    /\ acq[1].before[0] = "free" /\ ~acq[1].mem[0]
    /\ acq[1].ret = 1

(***************************************************************************)
(* C32: the plan of an enqueued job has one step per requested model, in   *)
(* request order; the step of a native-space model points at the native    *)
(* input and the step of a conformed-space model at the conformed input;   *)
(* and the input file of every step exists when the job is enqueued.       *)
(***************************************************************************)
C32_PlanStepsPointAtExistingInputs ==
    plan_pc = "enqueued" =>
        /\ Len(steps) = Len(plan_req.models)
        /\ \A i \in DOMAIN steps :
              /\ steps[i].model = plan_req.models[i]
              /\ steps[i].input_path =
                    IF ModelSpace(steps[i].model) = "native"
                    THEN session_input_native(StreamSid).path
                    ELSE session_input_fs(StreamSid).path
              /\ steps[i].input_path \in fs_files

(***************************************************************************)
(* C33: within one simulation job an event of a stdout line is published   *)
(* only when its progress exceeds the last published value, so the         *)
(* progress of the non-error events never decreases; the solve heartbeat   *)
(* starts at 68, rises by 2 per tick and never exceeds 88.  As claimed, no *)
(* heartbeat is published after the solve thread has finished or the       *)
(* deadline has passed; what holds is that none is published after the     *)
(* main thread has found the solve over or the deadline passed.            *)
(***************************************************************************)
NonError(events) == SelectSeq(events, LAMBDA e : e.event \notin {"roast_error", "simnibs_error"})

ProgressNonDecreasing(events) ==
    \A i, k \in DOMAIN events : i < k => events[i].progress <= events[k].progress

Heartbeats == SelectSeq(fem_events, LAMBDA e : e.event = "simnibs_fem_solve")

HeartbeatsRiseToCeiling ==
    /\ Heartbeats # <<>> => Heartbeats[1].progress = 68
    /\ \A i \in DOMAIN Heartbeats :
          /\ Heartbeats[i].progress <= 88
          /\ i > 1 => Heartbeats[i].progress =
                         IF Heartbeats[i - 1].progress + 2 <= 88
                         THEN Heartbeats[i - 1].progress + 2 ELSE 88

ProgressRises ==
    /\ ProgressNonDecreasing(NonError(sim_events))
    /\ ProgressNonDecreasing(NonError(fem_events))
    /\ HeartbeatsRiseToCeiling

\* A line's event is published only above the last published value
LineEventAboveLast ==
    (sim_pc = "reading" /\ sim_events' # sim_events /\ sim_pc' # "error")
        => sim_events'[Len(sim_events')].progress > sim_events[Len(sim_events)].progress

C34_ConcurrentJobsHaveOwnWorkDir ==
    \A v, w \in DOMAIN workers :
        (v # w /\ workers[v].state = "running" /\ workers[w].state = "running")
            => workers[v].work_dir # workers[w].work_dir

(***************************************************************************)
(* C36: every dequeued simulation job runs with the payload it was         *)
(* enqueued with, also when a second job of the same session was enqueued  *)
(* before the first was dequeued or had finished.                          *)
(***************************************************************************)
C36_JobRunsWithItsOwnPayload ==
    \A w \in DOMAIN workers :
        workers[w].state = "running" => workers[w].payload = workers[w].sent

(***************************************************************************)
(* C35: cleanup_old_sessions returns the number of session directories it  *)
(* deleted in the sweep and logs each successful removal as a removal, not *)
(* as a failure.                                                           *)
(***************************************************************************)
C35_SweepCountsAndLogsRemovals ==
    /\ sweep.ret = Cardinality(sweep.removed)
    /\ \A j \in sweep.removed :
          [sid |-> j, line |-> "Cleaned up old session"] \in sweep.logs

(***************************************************************************)
(* C37: with several stream readers on one session every published event   *)
(* that was read is emitted exactly once in total, by the one reader that  *)
(* consumed it, and is no longer on the list for another or a later        *)
(* reader: an event is either still listed or was emitted once.            *)
(***************************************************************************)
EmissionsOf(n) ==
    {<<r, i>> \in (1..NumReaders) \X (1..(MaxEvents + 1)) :
        i <= Len(rd_emitted[r]) /\ rd_emitted[r][i].event.n = n}

StillListed(n) ==
    {i \in DOMAIN sse[StreamSid] : sse[StreamSid][i].event.n = n}

StatusRank(status) ==
    CASE status = "prepared" -> 0
      [] status = "queued" -> 1
      [] status = "waiting_gpu" -> 2
      [] status = "running" -> 3
      [] OTHER -> 4

StatusStepsForward ==
    \A k \in (DOMAIN job_status) \cap (DOMAIN job_status') :
        /\ StatusRank(job_status'[k]) >= StatusRank(job_status[k])
        /\ StatusRank(job_status[k]) = 4 => job_status'[k] = job_status[k]

C38_StatusOnlyMovesForward == [][StatusStepsForward]_vars

(***************************************************************************)
(* C39: when every run of a runner ends and the threads are scheduled      *)
(* fairly, every step that waits in the acquire_gpu polling loop is        *)
(* eventually granted a slot, also while steps of other jobs keep          *)
(* competing; no step waits for ever (so that its job can settle and       *)
(* publish its terminal event).                                            *)
(***************************************************************************)
C39_WaitingStepGetsSlot ==
    \A j \in Jobs, m \in Models :
        (wait_pc[<<j, m>>] = "waiting") ~> (wait_pc[<<j, m>>] = "running")
====
